---- MODULE Spec2Model ----
(***************************************************************************)
(* Death Draft: the Pick view (src/app/pick/[seat]/page.tsx) and the Board *)
(* view (src/app/board/page.tsx, src/unnamed/part_000) as state machines   *)
(* over a backend holding the Picks table and the DraftState singleton.    *)
(*                                                                         *)
(* React state is modelled as the values the handlers of the current       *)
(* render see: every user action is a browser task of its own, and the     *)
(* state updates of one handler run are committed before the next handler  *)
(* runs.  An awaited request is two steps, the backend serving it (the     *)
(* moment its data is read) and the client receiving the response, so that *)
(* responses can be stale and can arrive in any order.  The two queries of *)
(* one loadAll() are read in one backend step and their responses are      *)
(* handled in one client step; each of them succeeds or fails on its own.  *)
(*                                                                         *)
(* The backend (tables, the death_draft_make_pick procedure, the change    *)
(* feed) is not part of the repository and is modelled from its contract.  *)
(* The Board view is the one of src/app/board/page.tsx or, with bRich, the *)
(* one of src/unnamed/part_000, which has the same handlers and a cached   *)
(* turn seat in addition.  After an effect's cleanup the state variables   *)
(* go on recording the values the setters are called with.  Celebrity      *)
(* names are ranks in the collation order of localeCompare.                *)
(*                                                                         *)
(* The diagnostic counters rtEvents / rtLast feed no decision and are left *)
(* out.  A celebrity is identified by its id.                              *)
(*                                                                         *)
(* A string is the sequence of its characters.  The number Number() gives  *)
(* for the route parameter is held as its integer part and its kind (an    *)
(* integer, a fraction, NaN).                                              *)
(***************************************************************************)
EXTENDS Integers, Sequences, FiniteSets, TLC

\* ---------------------------------------------------------------- bounds
NumCelebs == 2          \* size of the celebrity pool
MaxEnvLoads == 1        \* reloads started by the environment that may be in flight together
MaxCopies == 2          \* times the change feed may deliver one Pick insertion to the Board
MaxFeed == 2            \* queued Board events beyond which no out-of-band event is added
MaxDeletes == 1         \* out-of-band deletions of a Pick
MaxRows == 3            \* rows of a board given to the aggregation
NumNames == 2           \* distinct celebrity names, as ranks in the collation order
MaxClosing == 1         \* removed channels of a view whose CLOSED callback may be due together
MaxLifePicks == 1       \* picks committed while a view goes through mounts and unmounts
MaxFieldLen == 3        \* characters of a string given to escape()
MaxDraft == 7           \* celebrities of a draft that is followed once round the roster

\* ------------------------------------------------------------- constants
R == 6                  \* roster size (PLAYERS)

NULL == "null"
\* celebrity ids; NoId is the null of pickingId / pendingPick
Celebs == 1..NumCelebs
NoId == 0

PLAYERS == 1..R

\* error texts
PickFailedMsg == "Pick failed."
LoadErrMsg == "load error"
TransportMsg == "transport error"
NotYourTurnMsg == "not your turn"
TakenMsg == "already taken"

\* a string is the sequence of its characters
DigitChars == <<"0", "1", "2", "3", "4", "5", "6", "7", "8", "9">>
IsDigit(c) == \E d \in 1..10 : DigitChars[d] = c
DigitValue(c) == (CHOOSE d \in 1..10 : DigitChars[d] = c) - 1
AllDigits(t) == \A i \in 1..Len(t) : IsDigit(t[i])

RECURSIVE DigitsValue(_)
DigitsValue(t) ==
    IF t = <<>> THEN 0 ELSE 10 * DigitsValue(SubSeq(t, 1, Len(t) - 1)) + DigitValue(t[Len(t)])

\* Number(s) of a string: "" is 0; an optional "-", digits, and an optional
\* "." with digits (one digit at least) is that number; anything else is NaN.
\* A number is an integer (`whole`), a fraction between `whole` and
\* `whole` + 1, or NaN.  (White space, exponents, hexadecimal literals and
\* Infinity are outside the characters of the model.)
Number(s) ==
    LET neg == s # <<>> /\ s[1] = "-"
        body == IF neg THEN Tail(s) ELSE s
        dots == {i \in 1..Len(body) : body[i] = "."}
        dot == IF dots = {} THEN Len(body) + 1 ELSE CHOOSE i \in dots : \A j \in dots : i <= j
        int == SubSeq(body, 1, dot - 1)
        frac == SubSeq(body, dot + 1, Len(body))
        isZero(t) == \A i \in 1..Len(t) : t[i] = "0"
    IN IF s = <<>> THEN [kind |-> "integer", whole |-> 0]
       ELSE IF ~(AllDigits(int) /\ AllDigits(frac) /\ Len(int) + Len(frac) > 0)
       THEN [kind |-> "nan", whole |-> 0]
       ELSE IF isZero(frac)
       THEN [kind |-> "integer", whole |-> IF neg THEN 0 - DigitsValue(int) ELSE DigitsValue(int)]
       ELSE [kind |-> "fraction", whole |-> IF neg THEN 0 - DigitsValue(int) - 1 ELSE DigitsValue(int)]

\* String(n) of a natural number
RECURSIVE String(_)
String(n) ==
    IF n < 10 THEN <<DigitChars[n + 1]>> ELSE String(n \div 10) \o <<DigitChars[(n % 10) + 1]>>

\* values of the route parameter `seat` (params.seat)
SeatParams == {<<"1">>, <<"2">>}

\* values of the route parameter, those that name no roster seat among them
RouteParams ==
    {<<"1">>, <<"6">>, <<>>, <<"0">>, <<"7">>, <<"-", "1">>, <<"2", ".", "5">>, <<"6", ".", "5">>,
     <<"2", ".", "0">>, <<"x">>, <<"1", "x">>}

NullState == [id |-> 0, turn_seat |-> 0, pick_number |-> 0]

VARIABLES
    \* backend
    picks,          \* death_draft_picks: sequence of rows in creation order
    draft,          \* death_draft_state singleton (id = 1)
    celebs,         \* death_draft_celebrities, as the set of ids
    \* browser
    visible,        \* document.visibilityState === 'visible'
    \* Pick view
    seat,           \* Number(params.seat): the number itself when it is an integer, else see seatKind
    seatKind,       \* "integer", "fraction" (a number between seat and seat + 1) or "nan"
    alive,          \* the effect's `alive` flag
    state,          \* useState<DraftState | null>
    available,      \* useState<AvailableCelebrity[]>, as the set of ids
    loading,
    pickingId,
    pendingPick,
    err,
    rpcs,           \* unresolved death_draft_make_pick calls of this view
    loads,          \* unresolved loadAll / loadAvailable calls of this view
    pickFeed,       \* change-feed events on their way to the Pick view
    mounted,        \* the Pick view's component is mounted
    rtStatus,
    channel,        \* open change-feed subscriptions of the Pick view
    closing,        \* removed channels of the Pick view whose CLOSED callback is due
    \* Board view
    bAlive,
    rows,           \* useState<BoardRow[]>
    bLoading,
    bErr,
    bLoads,         \* unresolved load() calls of the Board view
    fetches,        \* unresolved targeted fetches of the INSERT handler
    boardFeed,      \* change-feed events on their way to the Board view
    anyFailed,      \* history: some Board read has failed or an event was malformed
    bRtStatus,
    bChannel,       \* open change-feed subscriptions of the Board view
    bClosing,       \* removed channels of the Board view whose CLOSED callback is due
    bRich,          \* the Board view is the one of src/unnamed/part_000
    bTurnSeat,      \* useState<number | null> of src/unnamed/part_000 (0 is null)
    bTotal,         \* totalCelebrities of src/unnamed/part_000
    lists,          \* the per-seat lists of the last exportBoardCsv()
    csv,            \* the text of the last exportBoardCsv(), as a sequence of characters
    field           \* a string given to escape() of exportBoardCsv

\* lifecycle and connection status of the two views
pickLife == <<mounted, rtStatus, channel, closing>>
boardLife == <<bRtStatus, bChannel, bClosing, bRich>>

\* what exportBoardCsv computes
exportVars == <<lists, field, csv>>

backendVars == <<picks, draft, celebs>>
pickVars == <<seat, seatKind, alive, pickLife, state, available, loading, pickingId, pendingPick, err, rpcs, loads, pickFeed>>
boardVars == <<bAlive, boardLife, exportVars, bTurnSeat, bTotal, rows, bLoading, bErr, bLoads, fetches, boardFeed, anyFailed>>
vars == <<picks, draft, celebs, visible, seat, seatKind, alive, pickLife, state, available, loading, pickingId, pendingPick, err,
          rpcs, loads, pickFeed, bAlive, boardLife, exportVars, bTurnSeat, bTotal, rows, bLoading, bErr, bLoads, fetches, boardFeed, anyFailed>>

\* ------------------------------------------------------------------ backend
PickedCelebs == {picks[i].celebrity_id : i \in 1..Len(picks)}

\* the death_draft_available view: celebrities without a Pick
BackendAvailable == celebs \ PickedCelebs

\* a rotation that does not go back to the first seat
NextSeat_noWrap(s) == s + 1

NextSeat(s) == (s % R) + 1

\* result of death_draft_make_pick(p_seat, p_celebrity_id) in the current backend state
MakePickOk(p_seat, p_celebrity_id) ==
    /\ draft.turn_seat = p_seat
    /\ p_celebrity_id \in BackendAvailable

MakePickMessage(p_seat, p_celebrity_id) ==
    IF draft.turn_seat # p_seat THEN NotYourTurnMsg ELSE TakenMsg

MakePickRow(p_seat, p_celebrity_id) ==
    [pick_number |-> draft.pick_number + 1, seat |-> p_seat, celebrity_id |-> p_celebrity_id]

MakePickState(p_seat) ==
    [id |-> 1, turn_seat |-> NextSeat(p_seat), pick_number |-> draft.pick_number + 1]

\* change-feed events of one committed pick, as the Pick view's channel gets them
PickViewEvents(row, st) ==
    << [table |-> "death_draft_picks", new |-> NullState],
       [table |-> "death_draft_state", new |-> st] >>

\* change-feed event of one committed pick, as the Board view's channel gets it
BoardInsertEvent(row) ==
    [event |-> "INSERT", pick_number |-> row.pick_number, celebrity_id |-> row.celebrity_id,
     turn_seat |-> 0]

\* change-feed event of a DraftState update, as the channel of src/unnamed/part_000
\* gets it; turn_seat 0 stands for a payload without `new` or without turn_seat
BoardStateEvent(turn_seat) ==
    [event |-> "STATE", pick_number |-> 0, celebrity_id |-> NoId, turn_seat |-> turn_seat]

Copies(e, n) == [i \in 1..n |-> e]

\* the procedure commits: one Pick row, one DraftState change, and the events
\* (the feed may lose the Pick view's events, and may repeat the Board's)
Commit(p_seat, p_celebrity_id) ==
    LET row == MakePickRow(p_seat, p_celebrity_id)
        st == MakePickState(p_seat)
    IN /\ picks' = Append(picks, row)
       /\ draft' = st
       /\ \E delivered \in BOOLEAN :
            pickFeed' = IF alive /\ delivered THEN pickFeed \o PickViewEvents(row, st) ELSE pickFeed
       /\ \E n \in 1..MaxCopies :
            boardFeed' = IF bAlive
                         THEN boardFeed \o Copies(BoardInsertEvent(row), n)
                                        \o (IF bRich THEN <<BoardStateEvent(st.turn_seat)>> ELSE <<>>)
                         ELSE boardFeed
       /\ UNCHANGED <<celebs, visible>>

NoCommit == UNCHANGED <<picks, draft, celebs, visible, pickFeed, boardFeed>>

\* ---------------------------------------------------------------- Pick view
\* Number.isFinite(seat) && seat >= 1 && seat <= 6
isValidSeat ==
    /\ seatKind # "nan"
    /\ seat >= 1
    /\ IF seatKind = "integer" THEN seat <= 6 ELSE seat + 1 <= 6

turnSeat == IF state = NullState THEN 0 ELSE state.turn_seat

isMyTurn == isValidSeat /\ seatKind = "integer" /\ turnSeat = seat

FreeLoad == [owner |-> "free", st |-> "none", av |-> "none",
             sdata |-> NullState, adata |-> {}]

\* the callers of loadAll(): run() of the mount effect, confirmPick() after a
\* successful pick, and the environment-driven ones (visibility change, Refresh,
\* Picks event), which share the slots 1..MaxEnvLoads
MountLoad == <<"mount", 0>>
ConfirmLoad == <<"confirm", 0>>
\* run() of an effect that has been cleaned up by a change of seat
OldMountLoad == <<"mountOld", 0>>
LoadIds == {MountLoad, ConfirmLoad, OldMountLoad} \cup ({"env"} \X (1..MaxEnvLoads))

EnvFree == {k \in 1..MaxEnvLoads : loads[<<"env", k>>].owner = "free"}

MinOf(S) == CHOOSE x \in S : \A y \in S : x <= y

\* loadAll(): both queries are sent; setErr(null) is done by the caller's action
loadAll(owner) ==
    [owner |-> owner, st |-> "sent", av |-> "sent", sdata |-> NullState, adata |-> {}]

\* loadAvailable() alone
loadAvailable(owner) ==
    [owner |-> owner, st |-> "none", av |-> "sent", sdata |-> NullState, adata |-> {}]

StartLoad(i, rec) == loads' = [loads EXCEPT ![i] = rec]


\* one unresolved supabase.rpc("death_draft_make_pick", ...) call
RpcCall(p_seat, p_celebrity_id) ==
    [p_seat |-> p_seat, p_celebrity_id |-> p_celebrity_id, phase |-> "sent",
     error |-> FALSE, ok |-> FALSE, message |-> NULL]

RemoveAt(q, i) == [j \in 1..(Len(q) - 1) |-> IF j < i THEN q[j] ELSE q[j + 1]]

\* a select that needs a live subscription
onPickGuard_liveOnly == isValidSeat /\ isMyTurn /\ pickingId = NoId /\ rtStatus = "subscribed"

\* onPick() without its turn check
onPickGuard_noTurn == isValidSeat /\ pickingId = NoId

onPickGuard == isValidSeat /\ isMyTurn /\ pickingId = NoId

\* onPick(c): a click on a row of the available list
OnPick(c) ==
    /\ mounted
    /\ isValidSeat
    /\ c \in available
    /\ IF onPickGuard
       THEN /\ err' = NULL
            /\ pendingPick' = c
            /\ UNCHANGED <<picks, draft, celebs, visible, seat, seatKind, alive, pickLife, state, available, loading, pickingId,
                           rpcs, loads, pickFeed, boardVars>>
       ELSE UNCHANGED vars

\* confirmPick() without its in-flight check
confirmPickGuard_noFlight == isValidSeat /\ isMyTurn /\ pendingPick # NoId

\* confirmPick() without its turn check
confirmPickGuard_noTurn == isValidSeat /\ pendingPick # NoId /\ pickingId = NoId

confirmPickGuard == isValidSeat /\ isMyTurn /\ pendingPick # NoId /\ pickingId = NoId

\* a confirmPick() that sends the pickingId of the render it runs in, which
\* setPickingId has not yet changed
ConfirmPick_sendsPickingId ==
    /\ mounted
    /\ isValidSeat
    /\ pendingPick # NoId
    /\ IF confirmPickGuard
       THEN /\ err' = NULL
            /\ pickingId' = pendingPick
            /\ rpcs' = Append(rpcs, RpcCall(seat, pickingId))
            /\ UNCHANGED <<picks, draft, celebs, visible, seat, seatKind, alive, pickLife, state, available, loading, pendingPick,
                           loads, pickFeed, boardVars>>
       ELSE UNCHANGED vars

\* confirmPick(), up to its first await: the Confirm button of the sheet
ConfirmPick ==
    /\ mounted
    /\ isValidSeat
    /\ pendingPick # NoId
    /\ IF confirmPickGuard
       THEN /\ err' = NULL
            /\ pickingId' = pendingPick
            /\ rpcs' = Append(rpcs, RpcCall(seat, pendingPick))
            /\ UNCHANGED <<picks, draft, celebs, visible, seat, seatKind, alive, pickLife, state, available, loading, pendingPick,
                           loads, pickFeed, boardVars>>
       ELSE UNCHANGED vars

\* the sheet's Cancel button (disabled while pickingId is set)
CancelPick ==
    /\ mounted
    /\ isValidSeat
    /\ pendingPick # NoId
    /\ pickingId = NoId
    /\ pendingPick' = NoId
    /\ UNCHANGED <<picks, draft, celebs, visible, seat, seatKind, alive, pickLife, state, available, loading, pickingId, err,
                   rpcs, loads, pickFeed, boardVars>>

\* a backdrop that dismisses the sheet whether or not a call is in flight
BackdropClick_noFlightCheck ==
    /\ mounted
    /\ isValidSeat
    /\ pendingPick # NoId
    /\ pendingPick' = NoId
    /\ UNCHANGED <<picks, draft, celebs, visible, seat, seatKind, alive, pickLife, state, available, loading, pickingId, err,
                   rpcs, loads, pickFeed, boardVars>>

\* a click on the sheet's backdrop
BackdropClick ==
    /\ mounted
    /\ isValidSeat
    /\ pendingPick # NoId
    /\ IF pickingId # NoId
       THEN UNCHANGED vars
       ELSE /\ pendingPick' = NoId
            /\ UNCHANGED <<picks, draft, celebs, visible, seat, seatKind, alive, pickLife, state, available, loading, pickingId, err,
                           rpcs, loads, pickFeed, boardVars>>

\* the backend runs the procedure for call i; the response is the result row,
\* or a transport error when the response is lost
RpcServe(i) ==
    /\ i \in 1..Len(rpcs)
    /\ rpcs[i].phase = "sent"
    /\ LET call == rpcs[i]
           ok == MakePickOk(call.p_seat, call.p_celebrity_id)
           msg == MakePickMessage(call.p_seat, call.p_celebrity_id)
       IN /\ IF ok THEN Commit(call.p_seat, call.p_celebrity_id) ELSE NoCommit
          /\ \E lost \in BOOLEAN, withMessage \in BOOLEAN :
               rpcs' = [rpcs EXCEPT ![i] =
                          [call EXCEPT !.phase = "served",
                                       !.error = lost,
                                       !.ok = ok /\ ~lost,
                                       !.message = IF lost THEN TransportMsg
                                                   ELSE IF ok \/ ~withMessage THEN NULL ELSE msg]]
    /\ UNCHANGED <<seat, seatKind, alive, pickLife, state, available, loading, pickingId, pendingPick, err, loads, boardVars>>

\* the request of call i never reaches the backend
RpcFail(i) ==
    /\ i \in 1..Len(rpcs)
    /\ rpcs[i].phase = "sent"
    /\ rpcs' = [rpcs EXCEPT ![i] = [@ EXCEPT !.phase = "served", !.error = TRUE, !.message = TransportMsg]]
    /\ UNCHANGED <<picks, draft, celebs, visible, seat, seatKind, alive, pickLife, state, available, loading, pickingId, pendingPick, err,
                   loads, pickFeed, boardVars>>

\* a rejection that leaves the error as it was
confirmPickRejected_silent(i) ==
    /\ rpcs' = RemoveAt(rpcs, i)
    /\ pickingId' = NoId
    /\ UNCHANGED <<pendingPick, err, loads>>

\* a rejection that submits the same pick again
confirmPickRejected_retry(i) ==
    /\ rpcs' = Append(RemoveAt(rpcs, i), RpcCall(rpcs[i].p_seat, rpcs[i].p_celebrity_id))
    /\ err' = IF rpcs[i].message = NULL THEN PickFailedMsg ELSE rpcs[i].message
    /\ UNCHANGED <<pickingId, pendingPick, loads>>

\* confirmPick() resumes after call i resolved with an error or with ok false:
\* catch { setErr(e?.message ?? "Pick failed.") } finally { setPickingId(null) }
confirmPickRejected(i) ==
    /\ rpcs' = RemoveAt(rpcs, i)
    /\ err' = IF rpcs[i].message = NULL THEN PickFailedMsg ELSE rpcs[i].message
    /\ pickingId' = NoId
    /\ UNCHANGED <<pendingPick, loads>>

\* a success that relies on the change feed alone
confirmPickAccepted_noReload(i) ==
    /\ rpcs' = RemoveAt(rpcs, i)
    /\ pendingPick' = NoId
    /\ err' = NULL
    /\ pickingId' = NoId
    /\ UNCHANGED loads

\* confirmPick() resumes after call i resolved with ok true:
\* setPendingPick(null); await loadAll()
confirmPickAccepted(i) ==
    /\ rpcs' = RemoveAt(rpcs, i)
    /\ pendingPick' = NoId
    /\ err' = NULL
    /\ StartLoad(ConfirmLoad, loadAll("confirm"))
    /\ UNCHANGED pickingId

\* a response handler that looks at the transport error only
RpcResolve_okIgnored(i) ==
    /\ i \in 1..Len(rpcs)
    /\ rpcs[i].phase = "served"
    /\ IF rpcs[i].error
       THEN confirmPickRejected(i)
       ELSE confirmPickAccepted(i)
    /\ UNCHANGED <<picks, draft, celebs, visible, seat, seatKind, alive, pickLife, state, available, loading, pickFeed, boardVars>>

\* the response of call i arrives:
\* if (error) throw error; if (!res?.ok) throw new Error(res?.message ?? "Pick failed.")
RpcResolve(i) ==
    /\ i \in 1..Len(rpcs)
    /\ rpcs[i].phase = "served"
    /\ IF rpcs[i].error \/ ~rpcs[i].ok
       THEN confirmPickRejected(i)
       ELSE confirmPickAccepted(i)
    /\ UNCHANGED <<picks, draft, celebs, visible, seat, seatKind, alive, pickLife, state, available, loading, pickFeed, boardVars>>

\* run() of the mount effect once loadAll() has settled
runSettled(ok) ==
    /\ err' = IF ~ok /\ alive THEN LoadErrMsg ELSE err
    /\ loading' = IF alive THEN FALSE ELSE loading
    /\ UNCHANGED pickingId

\* handleRefresh() once loadAll() has settled
handleRefreshSettled(ok) ==
    /\ err' = IF ok THEN err ELSE LoadErrMsg
    /\ loading' = FALSE
    /\ UNCHANGED pickingId

\* confirmPick() once the reload after a successful pick has settled
confirmPickReloaded(ok) ==
    /\ err' = IF ok THEN err ELSE LoadErrMsg
    /\ pickingId' = NoId
    /\ UNCHANGED loading

\* the code awaiting a loadAll() / loadAvailable() call resumes
LoadSettled(owner, ok) ==
    CASE owner = "mount" -> runSettled(ok)
      [] owner = "refresh" -> handleRefreshSettled(ok)
      [] owner = "confirm" -> confirmPickReloaded(ok)
      [] OTHER -> UNCHANGED <<err, loading, pickingId>>

\* the backend answers the queries of call i (death_draft_state and
\* death_draft_available; both are read in one backend step), each with
\* its rows or with an error
ServeLoad(i) ==
    /\ loads[i].av = "sent"
    /\ \E okS \in BOOLEAN, okA \in BOOLEAN :
         loads' = [loads EXCEPT ![i] =
                     [@ EXCEPT !.st = IF @ = "none" THEN "none" ELSE IF okS THEN "ok" ELSE "fail",
                               !.sdata = IF loads[i].st # "none" /\ okS THEN draft ELSE NullState,
                               !.av = IF okA THEN "ok" ELSE "fail",
                               !.adata = IF okA THEN BackendAvailable ELSE {}]]
    /\ UNCHANGED <<picks, draft, celebs, visible, seat, seatKind, alive, pickLife, state, available, loading, pickingId, pendingPick, err,
                   rpcs, pickFeed, boardVars>>

\* loadState(): if (error) throw error; setState(data)
loadState(rec) == state' = IF rec.st = "ok" THEN rec.sdata ELSE state

\* loadAvailable(): if (error) throw error; setAvailable(data ?? [])
loadAvailableDone(rec) == available' = IF rec.av = "ok" THEN rec.adata ELSE available

\* the responses of call i arrive (handled in one step): each query sets its
\* state unless it failed, and the awaiting caller resumes
LoadDone(i) ==
    LET rec == loads[i]
    IN /\ rec.av \in {"ok", "fail"}
       /\ loadState(rec)
       /\ loadAvailableDone(rec)
       /\ loads' = [loads EXCEPT ![i] = FreeLoad]
       /\ LoadSettled(rec.owner, rec.st \in {"ok", "none"} /\ rec.av = "ok")
       /\ UNCHANGED <<picks, draft, celebs, visible, seat, seatKind, alive, pickLife, pendingPick, rpcs, pickFeed, boardVars>>

\* handleVisibilityChange(): the page becomes visible
VisibilityChange ==
    /\ alive
    /\ EnvFree # {}
    /\ err' = NULL
    /\ StartLoad(<<"env", MinOf(EnvFree)>>, loadAll("visible"))
    /\ UNCHANGED <<picks, draft, celebs, visible, seat, seatKind, alive, pickLife, state, available, loading, pickingId, pendingPick,
                   rpcs, pickFeed, boardVars>>

\* handleRefresh(), up to its await: the Refresh button (disabled while loading)
\* the page is hidden: a visibilitychange event; the Pick view's listener, if
\* it is registered, finds visibilityState hidden.  The Board views register
\* no listener
PageHidden ==
    /\ visible
    /\ visible' = FALSE
    /\ UNCHANGED <<picks, draft, celebs, pickVars, boardVars>>

\* the page becomes visible: a visibilitychange event; handleVisibilityChange
\* of the Pick view (registered from the effect to its cleanup, where `alive`
\* is set false): if (visibilityState === 'visible' && alive) void loadAll()
PageVisible ==
    /\ ~visible
    /\ visible' = TRUE
    /\ alive => EnvFree # {}
    /\ IF alive
       THEN /\ err' = NULL
            /\ StartLoad(<<"env", MinOf(EnvFree)>>, loadAll("visible"))
       ELSE UNCHANGED <<err, loads>>
    /\ UNCHANGED <<picks, draft, celebs, seat, seatKind, alive, pickLife, state, available, loading, pickingId,
                   pendingPick, rpcs, pickFeed, boardVars>>

HandleRefresh ==
    /\ mounted
    /\ isValidSeat
    /\ ~loading
    /\ EnvFree # {}
    /\ err' = NULL
    /\ loading' = TRUE
    /\ StartLoad(<<"env", MinOf(EnvFree)>>, loadAll("refresh"))
    /\ UNCHANGED <<picks, draft, celebs, visible, seat, seatKind, alive, pickLife, state, available, pickingId, pendingPick,
                   rpcs, pickFeed, boardVars>>

\* a death_draft_state handler that takes the turn from the payload only
OnStateEvent_turnOnly ==
    /\ pickFeed # <<>>
    /\ Head(pickFeed).table = "death_draft_state"
    /\ LET next == Head(pickFeed).new
       IN state' = IF next.id = 1 THEN [state EXCEPT !.id = 1, !.turn_seat = next.turn_seat] ELSE state
    /\ pickFeed' = Tail(pickFeed)
    /\ UNCHANGED <<picks, draft, celebs, visible, seat, seatKind, alive, pickLife, available, loading, pickingId, pendingPick, err,
                   rpcs, loads, boardVars>>

\* the channel's death_draft_state handler (it does not look at `alive`)
OnStateEvent ==
    /\ pickFeed # <<>>
    /\ Head(pickFeed).table = "death_draft_state"
    /\ LET next == Head(pickFeed).new
       IN state' = IF next.id = 1 THEN next ELSE state
    /\ pickFeed' = Tail(pickFeed)
    /\ UNCHANGED <<picks, draft, celebs, visible, seat, seatKind, alive, pickLife, available, loading, pickingId, pendingPick, err,
                   rpcs, loads, boardVars>>

\* the channel's death_draft_picks handler (it does not look at `alive`)
OnPicksEvent ==
    /\ pickFeed # <<>>
    /\ Head(pickFeed).table = "death_draft_picks"
    /\ EnvFree # {}
    /\ StartLoad(<<"env", MinOf(EnvFree)>>, loadAvailable("picksEvent"))
    /\ pickFeed' = Tail(pickFeed)
    /\ UNCHANGED <<picks, draft, celebs, visible, seat, seatKind, alive, pickLife, state, available, loading, pickingId, pendingPick, err,
                   rpcs, boardVars>>

\* payload.new of a DraftState event that is missing, or lacks turn_seat and
\* pick_number (0 stands for undefined)
MalformedStates == {NullState, [id |-> 1, turn_seat |-> 0, pick_number |-> 0]}

\* the feed delivers a DraftState event with a malformed payload
MalformedStateEvent(m) ==
    /\ alive
    /\ Len(pickFeed) < MaxFeed
    /\ pickFeed' = Append(pickFeed, [table |-> "death_draft_state", new |-> m])
    /\ UNCHANGED <<picks, draft, celebs, visible, seat, seatKind, alive, pickLife, state, available, loading, pickingId,
                   pendingPick, err, rpcs, loads, boardVars>>

\* the component unmounts: the effect's cleanup runs (when the effect got past
\* its seat check): alive = false; removeChannel(channel), which the channel
\* reports as CLOSED later. Events of the channel that are on their way are
\* still handled, or dropped. The state variables go on recording what the
\* setters are called with.
Unmount ==
    /\ mounted
    /\ alive => closing < MaxClosing
    /\ mounted' = FALSE
    /\ alive' = FALSE
    /\ channel' = (IF alive THEN channel - 1 ELSE channel)
    /\ closing' = (IF alive THEN closing + 1 ELSE closing)
    /\ \E kept \in BOOLEAN : pickFeed' = IF kept THEN pickFeed ELSE <<>>
    /\ UNCHANGED <<picks, draft, celebs, visible, seat, seatKind, rtStatus, state, available, loading, pickingId, pendingPick,
                   err, rpcs, loads, boardVars>>

\* a change of seat whose effect run does not clean up the previous one
SeatChange_noCleanup(s) ==
    /\ mounted
    /\ Number(s) # [kind |-> seatKind, whole |-> seat]
    /\ alive => closing < MaxClosing
    /\ loads[MountLoad].owner # "free" => loads[OldMountLoad].owner = "free"
    /\ seat' = Number(s).whole
    /\ seatKind' = Number(s).kind
    /\ alive' = isValidSeat'
    /\ channel' = channel + (IF isValidSeat' THEN 1 ELSE 0)
    /\ closing' = closing
    /\ loading' = (IF isValidSeat' THEN TRUE ELSE loading)
    /\ err' = (IF isValidSeat' THEN NULL ELSE err)
    /\ rtStatus' = (IF isValidSeat' THEN "connecting" ELSE rtStatus)
    /\ loads' = [loads EXCEPT ![OldMountLoad] = IF loads[MountLoad].owner # "free"
                                                THEN [loads[MountLoad] EXCEPT !.owner = "cleaned"]
                                                ELSE @,
                              ![MountLoad] = IF isValidSeat' THEN loadAll("mount") ELSE FreeLoad]
    /\ \E kept \in BOOLEAN : pickFeed' = IF kept THEN pickFeed ELSE <<>>
    /\ UNCHANGED <<picks, draft, celebs, visible, mounted, state, available, pickingId, pendingPick, rpcs, boardVars>>

\* the route parameter changes to s with the component mounted: the cleanup
\* of the previous effect run (if it got past its seat check), then the effect
\* for the new seat: if (!isValidSeat) return; alive = true; run(); subscribe.
\* A run() of the previous effect that is still waiting goes on with its own
\* `alive`, now false.
SeatChange(s) ==
    /\ mounted
    /\ Number(s) # [kind |-> seatKind, whole |-> seat]
    /\ alive => closing < MaxClosing
    /\ loads[MountLoad].owner # "free" => loads[OldMountLoad].owner = "free"
    /\ seat' = Number(s).whole
    /\ seatKind' = Number(s).kind
    /\ alive' = isValidSeat'
    /\ channel' = channel - (IF alive THEN 1 ELSE 0) + (IF isValidSeat' THEN 1 ELSE 0)
    /\ closing' = closing + (IF alive THEN 1 ELSE 0)
    /\ loading' = (IF isValidSeat' THEN TRUE ELSE loading)
    /\ err' = (IF isValidSeat' THEN NULL ELSE err)
    /\ rtStatus' = (IF isValidSeat' THEN "connecting" ELSE rtStatus)
    /\ loads' = [loads EXCEPT ![OldMountLoad] = IF loads[MountLoad].owner # "free"
                                                THEN [loads[MountLoad] EXCEPT !.owner = "cleaned"]
                                                ELSE @,
                              ![MountLoad] = IF isValidSeat' THEN loadAll("mount") ELSE FreeLoad]
    /\ \E kept \in BOOLEAN : pickFeed' = IF kept THEN pickFeed ELSE <<>>
    /\ UNCHANGED <<picks, draft, celebs, visible, mounted, state, available, pickingId, pendingPick, rpcs, boardVars>>

\* the route is opened again: a new component, once nothing of the previous
\* one is in flight
Mount(s) ==
    /\ ~mounted
    /\ rpcs = <<>>
    /\ \A i \in LoadIds : loads[i].owner = "free"
    /\ pickFeed = <<>>
    /\ closing = 0
    /\ seat' = Number(s).whole
    /\ seatKind' = Number(s).kind
    /\ mounted' = TRUE
    /\ alive' = isValidSeat'
    /\ state' = NullState
    /\ available' = {}
    /\ loading' = TRUE
    /\ pickingId' = NoId
    /\ pendingPick' = NoId
    /\ err' = NULL
    /\ loads' = [i \in LoadIds |-> IF i = MountLoad /\ isValidSeat' THEN loadAll("mount") ELSE FreeLoad]
    /\ rtStatus' = "connecting"
    /\ channel' = (IF isValidSeat' THEN 1 ELSE 0)
    /\ UNCHANGED <<picks, draft, celebs, visible, closing, rpcs, pickFeed, boardVars>>

\* the subscribe callback of a removed channel, called with CLOSED: its
\* `alive` is false, so it returns
OnClosed ==
    /\ closing > 0
    /\ closing' = closing - 1
    /\ UNCHANGED <<picks, draft, celebs, visible, seat, seatKind, alive, mounted, rtStatus, channel, state, available, loading,
                   pickingId, pendingPick, err, rpcs, loads, pickFeed, boardVars>>

\* the statuses the channel reports to the subscribe callback, in lower case
Statuses == {"subscribed", "timed_out", "closed", "channel_error"}

\* the subscribe callback of the open channel: if (!alive) return; setRtStatus(...)
OnStatus(s) ==
    /\ channel > 0
    /\ rtStatus' = IF alive THEN s ELSE rtStatus
    /\ UNCHANGED <<picks, draft, celebs, visible, seat, seatKind, alive, mounted, channel, closing, state, available, loading,
                   pickingId, pendingPick, err, rpcs, loads, pickFeed, boardVars>>

\* another client's call of the procedure commits a pick
ExternalPick(c) ==
    /\ c \in BackendAvailable
    /\ Commit(draft.turn_seat, c)
    /\ UNCHANGED <<seat, seatKind, alive, pickLife, state, available, loading, pickingId, pendingPick, err, rpcs, loads,
                   bAlive, boardLife, exportVars, bTurnSeat, bTotal, rows, bLoading, bErr, bLoads, fetches, anyFailed>>

\* another client's call of the procedure, for any seat and any celebrity
ExternalCall(p_seat, c) ==
    /\ IF MakePickOk(p_seat, c) THEN Commit(p_seat, c) ELSE NoCommit
    /\ UNCHANGED <<seat, seatKind, alive, pickLife, state, available, loading, pickingId, pendingPick, err, rpcs, loads,
                   bAlive, boardLife, exportVars, bTurnSeat, bTotal, rows, bLoading, bErr, bLoads, fetches, anyFailed>>

\* the backend of a draft with MaxDraft celebrities
InitDraft ==
    /\ picks = <<>>
    /\ draft = [id |-> 1, turn_seat |-> 1, pick_number |-> 0]
    /\ celebs = 1..MaxDraft
    /\ visible = TRUE

InitBackend ==
    /\ picks = <<>>
    /\ draft = [id |-> 1, turn_seat |-> 1, pick_number |-> 0]
    /\ celebs = Celebs
    /\ visible = TRUE

\* no Pick view is open
InitNoPickView ==
    /\ seat = 0
    /\ seatKind = "integer"
    /\ alive = FALSE
    /\ state = NullState
    /\ available = {}
    /\ loading = TRUE
    /\ pickingId = NoId
    /\ pendingPick = NoId
    /\ err = NULL
    /\ rpcs = <<>>
    /\ loads = [i \in LoadIds |-> FreeLoad]
    /\ pickFeed = <<>>
    /\ mounted = FALSE
    /\ rtStatus = "connecting"
    /\ channel = 0
    /\ closing = 0

\* the Pick view after its first render and its mount effect
PickMounted(s) ==
    /\ seat = Number(s).whole
    /\ seatKind = Number(s).kind
    /\ alive = isValidSeat
    /\ state = NullState
    /\ available = {}
    /\ loading = TRUE
    /\ pickingId = NoId
    /\ pendingPick = NoId
    /\ err = NULL
    /\ rpcs = <<>>
    /\ loads = [i \in LoadIds |-> IF i = MountLoad /\ isValidSeat THEN loadAll("mount") ELSE FreeLoad]
    /\ pickFeed = <<>>
    /\ mounted = TRUE
    /\ rtStatus = "connecting"
    /\ channel = (IF isValidSeat THEN 1 ELSE 0)
    /\ closing = 0

InitPickView == \E s \in SeatParams : PickMounted(s)

\* --------------------------------------------------------------- Board view
\* what death_draft_celebrities holds for celebrity c: the name (its rank in
\* the collation order) and the age
CelebrityRank(c) == ((c - 1) % NumNames) + 1
CelebrityAge(c) == IF c % 2 = 1 THEN 80 ELSE 70

\* a row of the death_draft_board view (name and age follow from celebrity_id)
BoardRow(p) ==
    [pick_number |-> p.pick_number, seat |-> p.seat, celebrity_id |-> p.celebrity_id,
     celebrity_name |-> CelebrityRank(p.celebrity_id), celebrity_age |-> CelebrityAge(p.celebrity_id)]

\* select ... from death_draft_board
BackendBoard == [i \in 1..Len(picks) |-> BoardRow(picks[i])]

PickNumbers(q) == {q[i].pick_number : i \in 1..Len(q)}

\* countRes.count of a failed or absent count query
NoCount == -1

FreeBoardLoad == [owner |-> "free", phase |-> "none", data |-> <<>>, turn |-> 0, count |-> NoCount]

\* the callers of load(): run() of the mount effect, and the event handlers
\* (UPDATE handler, INSERT handler's catch), which share the slots 1..MaxEnvLoads
BoardLoadIds == {MountLoad} \cup ({"env"} \X (1..MaxEnvLoads))

BoardEnvFree == {k \in 1..MaxEnvLoads : bLoads[<<"env", k>>].owner = "free"}

\* load(), up to its await: setErr(null) and the query is sent (in
\* src/unnamed/part_000 together with the queries of turn_seat and of the count)
load(i, owner) ==
    /\ bErr' = NULL
    /\ bLoads' = [bLoads EXCEPT ![i] = [owner |-> owner, phase |-> "sent", data |-> <<>>, turn |-> 0,
                                      count |-> NoCount]]

\* the backend answers the board query of call i (and, for src/unnamed/part_000,
\* the turn_seat query, read in the same backend step; turn 0 is a failed or
\* absent turn_seat query) and the count of death_draft_celebrities
ServeBoardLoad(i) ==
    /\ bLoads[i].phase = "sent"
    /\ \E ok \in BOOLEAN, okT, okC \in {b \in BOOLEAN : bRich \/ ~b} :
         /\ bLoads' = [bLoads EXCEPT ![i] = [@ EXCEPT !.phase = IF ok THEN "ok" ELSE "fail",
                                                     !.data = IF ok THEN BackendBoard ELSE <<>>,
                                                     !.turn = IF okT THEN draft.turn_seat ELSE 0,
                                                     !.count = IF okC THEN Cardinality(celebs)
                                                                      ELSE NoCount]]
         /\ anyFailed' = (anyFailed \/ ~ok)
    /\ UNCHANGED <<picks, draft, celebs, visible, pickVars, bAlive, boardLife, exportVars, bTurnSeat, bTotal, rows, bLoading, bErr, fetches, boardFeed>>

\* a load() that sets the rows from the response before it looks at the error
loadDone_rowsFirst(i) ==
    LET rec == bLoads[i]
    IN /\ rec.phase \in {"ok", "fail"}
       /\ bErr' = IF rec.phase = "fail" THEN LoadErrMsg ELSE bErr
       /\ rows' = rec.data
       /\ bTurnSeat' = IF rec.phase = "fail" \/ rec.turn = 0 THEN bTurnSeat ELSE rec.turn
       /\ bTotal' = IF rec.phase = "fail" \/ rec.count = NoCount THEN bTotal ELSE rec.count
       /\ bLoading' = IF rec.owner = "mount" /\ bAlive THEN FALSE ELSE bLoading
       /\ bLoads' = [bLoads EXCEPT ![i] = FreeBoardLoad]
       /\ UNCHANGED <<picks, draft, celebs, visible, pickVars, bAlive, boardLife, exportVars, fetches, boardFeed, anyFailed>>

\* load() resumes with its response: if (error) { setErr(message); return } setRows(data);
\* in src/unnamed/part_000 then: if (!stateRes.error && stateRes.data) setTurnSeat(turn_seat ?? null);
\* if (!countRes.error && countRes.count !== null) setTotalCelebrities(countRes.count);
\* run() then does: finally { if (alive) setLoading(false) }
loadDone(i) ==
    LET rec == bLoads[i]
    IN /\ rec.phase \in {"ok", "fail"}
       /\ bErr' = IF rec.phase = "fail" THEN LoadErrMsg ELSE bErr
       /\ rows' = IF rec.phase = "fail" THEN rows ELSE rec.data
       /\ bTurnSeat' = IF rec.phase = "fail" \/ rec.turn = 0 THEN bTurnSeat ELSE rec.turn
       /\ bTotal' = IF rec.phase = "fail" \/ rec.count = NoCount THEN bTotal ELSE rec.count
       /\ bLoading' = IF rec.owner = "mount" /\ bAlive THEN FALSE ELSE bLoading
       /\ bLoads' = [bLoads EXCEPT ![i] = FreeBoardLoad]
       /\ UNCHANGED <<picks, draft, celebs, visible, pickVars, bAlive, boardLife, exportVars, fetches, boardFeed, anyFailed>>

\* the targeted fetch of the INSERT handler: .eq("pick_number", n).single()
Fetch(n) == [pick_number |-> n, phase |-> "sent", data |-> <<>>]

\* the INSERT handler, up to its await; a payload without `new` makes
\* nextPick.pick_number throw, and the catch block calls load()
OnInsert ==
    /\ boardFeed # <<>>
    /\ Head(boardFeed).event = "INSERT"
    /\ IF Head(boardFeed).pick_number = 0
       THEN /\ BoardEnvFree # {}
            /\ load(<<"env", MinOf(BoardEnvFree)>>, "fallback")
            /\ UNCHANGED fetches
       ELSE /\ fetches' = Append(fetches, Fetch(Head(boardFeed).pick_number))
            /\ UNCHANGED <<bErr, bLoads>>
    /\ boardFeed' = Tail(boardFeed)
    /\ UNCHANGED <<picks, draft, celebs, visible, pickVars, bAlive, boardLife, exportVars, bTurnSeat, bTotal, rows, bLoading, anyFailed>>

\* the backend answers fetch j: the row, no row (single() then reports an
\* error), or a query error
ServeFetch(j) ==
    /\ j \in 1..Len(fetches)
    /\ fetches[j].phase = "sent"
    /\ LET found == SelectSeq(BackendBoard, LAMBDA r : r.pick_number = fetches[j].pick_number)
       IN \E ok \in BOOLEAN :
            /\ fetches' = [fetches EXCEPT ![j] =
                             [@ EXCEPT !.phase = IF ok /\ found # <<>> THEN "ok" ELSE "fail",
                                       !.data = IF ok THEN found ELSE <<>>]]
            /\ anyFailed' = (anyFailed \/ ~ok)
    /\ UNCHANGED <<picks, draft, celebs, visible, pickVars, bAlive, boardLife, exportVars, bTurnSeat, bTotal, rows, bLoading, bErr, bLoads, boardFeed>>

\* an append without the duplicate check
appendRow_noCheck(prev, data) == Append(prev, data)

\* setRows((prev) => prev.some(same pick_number) ? prev : [...prev, data])
appendRow(prev, data) ==
    IF \E k \in 1..Len(prev) : prev[k].pick_number = data.pick_number
    THEN prev
    ELSE Append(prev, data)

\* the INSERT handler resumes with the fetched row: if (error || !data) return
insertFetched(f) ==
    /\ rows' = IF f.phase = "fail" THEN rows ELSE appendRow(rows, f.data[1])
    /\ UNCHANGED <<bErr, bLoads>>

FetchDone(j) ==
    /\ j \in 1..Len(fetches)
    /\ fetches[j].phase \in {"ok", "fail"}
    /\ insertFetched(fetches[j])
    /\ fetches' = RemoveAt(fetches, j)
    /\ UNCHANGED <<picks, draft, celebs, visible, pickVars, bAlive, boardLife, exportVars, bTurnSeat, bTotal, bLoading, boardFeed, anyFailed>>

\* an UPDATE handler that reloads nothing
OnUpdate_noLoad ==
    /\ boardFeed # <<>>
    /\ Head(boardFeed).event = "UPDATE"
    /\ boardFeed' = Tail(boardFeed)
    /\ UNCHANGED <<picks, draft, celebs, visible, pickVars, bAlive, boardLife, exportVars, bTurnSeat, bTotal, rows, bLoading, bErr, bLoads,
                   fetches, anyFailed>>

\* an UPDATE handler that writes the rows it holds to the Picks table
OnUpdate_writesBack ==
    /\ boardFeed # <<>>
    /\ Head(boardFeed).event = "UPDATE"
    /\ BoardEnvFree # {}
    /\ load(<<"env", MinOf(BoardEnvFree)>>, "update")
    /\ boardFeed' = Tail(boardFeed)
    /\ picks' = [i \in 1..Len(rows) |-> [pick_number |-> rows[i].pick_number, seat |-> rows[i].seat,
                                          celebrity_id |-> rows[i].celebrity_id]]
    /\ UNCHANGED <<draft, celebs, visible, pickVars, bAlive, boardLife, exportVars, bTurnSeat, bTotal, rows, bLoading, fetches, anyFailed>>

\* the UPDATE handler: void load()
OnUpdate ==
    /\ boardFeed # <<>>
    /\ Head(boardFeed).event = "UPDATE"
    /\ BoardEnvFree # {}
    /\ load(<<"env", MinOf(BoardEnvFree)>>, "update")
    /\ boardFeed' = Tail(boardFeed)
    /\ UNCHANGED <<picks, draft, celebs, visible, pickVars, bAlive, boardLife, exportVars, bTurnSeat, bTotal, rows, bLoading, fetches, anyFailed>>

\* a DELETE handler that removes by pick_number
removeDeleted_byPickNumber(prev, oldRow) ==
    SelectSeq(prev, LAMBDA r : r.pick_number # oldRow.pick_number)

\* setRows((prev) => prev.filter((r) => r.celebrity_id !== oldRow.celebrity_id))
removeDeleted(prev, oldRow) ==
    SelectSeq(prev, LAMBDA r : r.celebrity_id # oldRow.celebrity_id)

\* the DELETE handler
OnDelete ==
    /\ boardFeed # <<>>
    /\ Head(boardFeed).event = "DELETE"
    /\ rows' = removeDeleted(rows, Head(boardFeed))
    /\ boardFeed' = Tail(boardFeed)
    /\ UNCHANGED <<picks, draft, celebs, visible, pickVars, bAlive, boardLife, exportVars, bTurnSeat, bTotal, bLoading, bErr, bLoads,
                   fetches, anyFailed>>

\* out of band, the Pick at position k is deleted: a DELETE event whose `old`
\* row carries the key columns, and celebrity_id with them or not
AdminDelete(k) ==
    /\ bAlive
    /\ k \in 1..Len(picks)
    /\ draft.pick_number - Len(picks) < MaxDeletes
    /\ Len(boardFeed) < MaxFeed
    /\ picks' = RemoveAt(picks, k)
    /\ \E withId \in BOOLEAN :
         boardFeed' = Append(boardFeed,
                             [event |-> "DELETE", pick_number |-> picks[k].pick_number,
                              celebrity_id |-> IF withId THEN picks[k].celebrity_id ELSE NoId,
                              turn_seat |-> 0])
    /\ UNCHANGED <<draft, celebs, visible, pickVars, bAlive, boardLife, exportVars, bTurnSeat, bTotal, rows, bLoading, bErr, bLoads,
                   fetches, anyFailed>>

\* out of band, a Pick row is rewritten with the same values: an UPDATE event
AdminUpdate ==
    /\ bAlive
    /\ picks # <<>>
    /\ Len(boardFeed) < MaxFeed
    /\ boardFeed' = Append(boardFeed, [event |-> "UPDATE", pick_number |-> 0, celebrity_id |-> NoId, turn_seat |-> 0])
    /\ UNCHANGED <<picks, draft, celebs, visible, pickVars, bAlive, boardLife, exportVars, bTurnSeat, bTotal, rows, bLoading, bErr, bLoads, fetches, anyFailed>>

\* the feed delivers an INSERT event whose payload has no `new` row
MalformedInsert ==
    /\ bAlive
    /\ Len(boardFeed) < MaxFeed
    /\ boardFeed' = Append(boardFeed, [event |-> "INSERT", pick_number |-> 0, celebrity_id |-> NoId, turn_seat |-> 0])
    /\ anyFailed' = TRUE
    /\ UNCHANGED <<picks, draft, celebs, visible, pickVars, bAlive, boardLife, exportVars, bTurnSeat, bTotal, rows, bLoading, bErr, bLoads, fetches>>

RECURSIVE reduceMax(_, _, _)
\* rows.reduce((max, r) => (r.pick_number > max ? r.pick_number : max), max), from index i
reduceMax(q, i, max) ==
    IF i > Len(q)
    THEN max
    ELSE reduceMax(q, i + 1, IF q[i].pick_number > max THEN q[i].pick_number ELSE max)

\* a "most recent" that is the first local row
lastPickNumber_first == IF Len(rows) = 0 THEN 0 ELSE rows[1].pick_number

\* lastPickNumber (0 is null)
lastPickNumber == IF Len(rows) = 0 THEN 0 ELSE reduceMax(rows, 1, rows[1].pick_number)

\* the row's highlight: lastPickNumber !== null && r.pick_number === lastPickNumber
isHighlighted(r) == lastPickNumber # 0 /\ r.pick_number = lastPickNumber

\* the death_draft_state UPDATE handler of src/unnamed/part_000:
\* setTurnSeat(next?.turn_seat ?? null)
OnBoardStateEvent ==
    /\ boardFeed # <<>>
    /\ Head(boardFeed).event = "STATE"
    /\ bTurnSeat' = Head(boardFeed).turn_seat
    /\ bTotal' = bTotal
    /\ boardFeed' = Tail(boardFeed)
    /\ UNCHANGED <<picks, draft, celebs, visible, pickVars, bAlive, boardLife, exportVars, rows, bLoading, bErr, bLoads,
                   fetches, anyFailed>>

\* the feed delivers a DraftState event with a malformed payload
MalformedBoardStateEvent ==
    /\ bAlive
    /\ bRich
    /\ Len(boardFeed) < MaxFeed
    /\ boardFeed' = Append(boardFeed, BoardStateEvent(0))
    /\ UNCHANGED <<picks, draft, celebs, visible, pickVars, bAlive, boardLife, exportVars, bTurnSeat, bTotal, rows, bLoading, bErr,
                   bLoads, fetches, anyFailed>>

\* the subscribe callback of the open channel: setRtStatus(...)
BoardStatus(s) ==
    /\ bChannel > 0
    /\ bRtStatus' = s
    /\ UNCHANGED <<picks, draft, celebs, visible, pickVars, bAlive, bChannel, bClosing, bRich, exportVars, bTurnSeat, bTotal, rows,
                   bLoading, bErr, bLoads, fetches, boardFeed, anyFailed>>

\* the subscribe callback of a removed channel, called with CLOSED
BoardClosed ==
    /\ bClosing > 0
    /\ bClosing' = bClosing - 1
    /\ bRtStatus' = "closed"
    /\ UNCHANGED <<picks, draft, celebs, visible, pickVars, bAlive, bChannel, bRich, exportVars, bTurnSeat, bTotal, rows,
                   bLoading, bErr, bLoads, fetches, boardFeed, anyFailed>>

\* the component unmounts, the effect's cleanup runs: alive = false;
\* removeChannel(channel)
BoardUnmount ==
    /\ bAlive
    /\ bClosing < MaxClosing
    /\ bAlive' = FALSE
    /\ bChannel' = bChannel - 1
    /\ bClosing' = bClosing + 1
    /\ \E kept \in BOOLEAN : boardFeed' = IF kept THEN boardFeed ELSE <<>>
    /\ UNCHANGED <<picks, draft, celebs, visible, pickVars, bRtStatus, bRich, exportVars, bTurnSeat, bTotal, rows, bLoading, bErr,
                   bLoads, fetches, anyFailed>>

\* the board is opened again: a new component, once nothing of the previous
\* one is in flight
BoardMount ==
    /\ ~bAlive
    /\ \A i \in BoardLoadIds : bLoads[i].owner = "free"
    /\ fetches = <<>>
    /\ boardFeed = <<>>
    /\ bClosing = 0
    /\ bAlive' = TRUE
    /\ rows' = <<>>
    /\ bLoading' = TRUE
    /\ bErr' = NULL
    /\ bLoads' = [i \in BoardLoadIds |-> IF i = MountLoad
                                         THEN [owner |-> "mount", phase |-> "sent", data |-> <<>>, turn |-> 0,
                                               count |-> NoCount]
                                         ELSE FreeBoardLoad]
    /\ bRtStatus' = "connecting"
    /\ bChannel' = 1
    /\ bTurnSeat' = 0
    /\ bTotal' = 0
    /\ lists' = [p \in PLAYERS |-> <<>>]
    /\ csv' = <<>>
    /\ UNCHANGED field
    /\ UNCHANGED <<picks, draft, celebs, visible, pickVars, bClosing, bRich, fetches, boardFeed, anyFailed>>

\* a.localeCompare(b), names being ranks in the collation order
localeCompare(a, b) == IF a < b THEN -1 ELSE IF a > b THEN 1 ELSE 0

\* the comparator of bySeat and of exportBoardCsv: age descending, then name
compareRows(a, b) ==
    IF b.celebrity_age # a.celebrity_age
    THEN b.celebrity_age - a.celebrity_age
    ELSE localeCompare(a.celebrity_name, b.celebrity_name)

\* the places of a sorted list whose row comes after x
After(sorted, x) == {k \in 1..Len(sorted) : compareRows(sorted[k], x) > 0}

\* an insertion that puts x before the rows that compare equal to it
insertSorted_beforeEqual(sorted, x) ==
    LET after == {k \in 1..Len(sorted) : compareRows(sorted[k], x) >= 0}
    IN IF after = {}
       THEN Append(sorted, x)
       ELSE SubSeq(sorted, 1, MinOf(after) - 1) \o <<x>> \o SubSeq(sorted, MinOf(after), Len(sorted))

\* x is put behind every row that does not come after it: rows that compare
\* equal keep their order (Array.prototype.sort is stable)
insertSorted(sorted, x) ==
    IF After(sorted, x) = {}
    THEN Append(sorted, x)
    ELSE SubSeq(sorted, 1, MinOf(After(sorted, x)) - 1) \o <<x>>
            \o SubSeq(sorted, MinOf(After(sorted, x)), Len(sorted))

RECURSIVE sortRows(_)
\* list.sort(compareRows)
sortRows(q) ==
    IF q = <<>>
    THEN <<>>
    ELSE insertSorted(sortRows(SubSeq(q, 1, Len(q) - 1)), q[Len(q)])

\* the keys of the Map m: every roster seat, and every seat of a row
seatsOf(q) == PLAYERS \cup {q[i].seat : i \in 1..Len(q)}

\* bySeat (useMemo over rows): the rows of each seat, sorted
bySeat ==
    [s \in seatsOf(rows) |-> sortRows(SelectSeq(rows, LAMBDA r : r.seat = s))]

\* the names of PLAYERS, by seat; a name is a run of ordinary characters and
\* stands as one element of a string
PlayerNames == <<"Scoot", "Brian", "Stephan", "Bee", "Ryan", "Thomas">>

\* the celebrity_name whose rank in the collation order is n: "A", "A,", "A,,", ...
CelebrityName(n) == <<"A">> \o [i \in 1..(n - 1) |-> ","]

\* the characters escape() looks for: /[\n\r,\"]/
Special == {"\n", "\r", ",", "\""}

RECURSIVE doubleQuotes(_)
\* v.replace(/\"/g, '""')
doubleQuotes(v) ==
    IF v = <<>> THEN <<>>
    ELSE (IF Head(v) = "\"" THEN <<"\"", "\"">> ELSE <<Head(v)>>) \o doubleQuotes(Tail(v))

\* a wrapping in quotes that leaves the quotes of v as they are
escape_noDoubling(v) ==
    IF \E i \in 1..Len(v) : v[i] \in Special
    THEN <<"\"">> \o v \o <<"\"">>
    ELSE v

\* escape(v) of exportBoardCsv
escape(v) ==
    IF \E i \in 1..Len(v) : v[i] \in Special
    THEN <<"\"">> \o doubleQuotes(v) \o <<"\"">>
    ELSE v

RECURSIVE join(_, _)
\* Array.prototype.join
join(a, sep) ==
    IF a = <<>> THEN <<>>
    ELSE IF Len(a) = 1 THEN a[1]
    ELSE a[1] \o <<sep>> \o join(Tail(a), sep)

\* the lists of exportBoardCsv: (bySeat.get(p.seat) ?? []).slice(), sorted again
exportLists == [p \in PLAYERS |-> sortRows(bySeat[p])]

\* Math.max(0, ...PLAYERS.map((p) => lists[p.seat].length))
maxLen(l) == CHOOSE n \in {0} \cup {Len(l[p]) : p \in PLAYERS} :
                 \A m \in {0} \cup {Len(l[p]) : p \in PLAYERS} : m <= n

\* headers: p.name and `${p.name} Age` for each player
headers ==
    [k \in 1..(2 * R) |-> IF k % 2 = 1
                          THEN <<PlayerNames[(k + 1) \div 2]>>
                          ELSE <<PlayerNames[k \div 2], " ", "A", "g", "e">>]

\* a row that leaves out the fields of a seat without an i-th pick
csvRow_noPadding(l, i) ==
    LET has == {p \in PLAYERS : i <= Len(l[p])}
        nth(k) == CHOOSE p \in has : Cardinality({q \in has : q < p}) = k - 1
    IN [k \in 1..(2 * Cardinality(has)) |->
          IF k % 2 = 1 THEN CelebrityName(l[nth((k + 1) \div 2)][i].celebrity_name)
                       ELSE String(l[nth(k \div 2)][i].celebrity_age)]

\* row i of the export: for each player the name and the age of the i-th
\* item of the list, or "" and "" (item ? ... : "")
csvRow(l, i) ==
    [k \in 1..(2 * R) |->
        LET p == (k + 1) \div 2
        IN IF i > Len(l[p]) THEN <<>>
           ELSE IF k % 2 = 1 THEN CelebrityName(l[p][i].celebrity_name)
           ELSE String(l[p][i].celebrity_age)]

\* the lines of the export, and lines.join("\n")
csvLines(l) ==
    <<join([k \in 1..(2 * R) |-> escape(headers[k])], ",")>>
      \o [i \in 1..maxLen(l) |-> join([k \in 1..Len(csvRow(l, i)) |-> escape(csvRow(l, i)[k])], ",")]

\* exportBoardImage() of src/unnamed/part_000: the board element is drawn to
\* a canvas and downloaded; no state of the view or of the backend is touched
ExportBoardImage ==
    /\ bAlive
    /\ bRich
    /\ UNCHANGED vars

\* escape() is given the string `field`, the result being the text
EscapeField ==
    /\ csv' = escape(field)
    /\ UNCHANGED <<picks, draft, celebs, visible, pickVars, bAlive, boardLife, lists, field, bTurnSeat, bTotal,
                   rows, bLoading, bErr, bLoads, fetches, boardFeed, anyFailed>>

\* the characters of the strings given to escape(): an ordinary one and the four of Special
FieldChars == {"a"} \cup Special

Fields == UNION {[1..n -> FieldChars] : n \in 0..MaxFieldLen}

\* a string that escape() is to be given
InitField ==
    /\ field \in Fields

\* exportBoardCsv(): the lists, and the text that is downloaded
ExportBoardCsv ==
    /\ bAlive
    /\ lists' = exportLists
    /\ csv' = join(csvLines(exportLists), "\n")
    /\ UNCHANGED field
    /\ UNCHANGED <<picks, draft, celebs, visible, pickVars, bAlive, boardLife, bTurnSeat, bTotal, rows, bLoading, bErr, bLoads,
                   fetches, boardFeed, anyFailed>>

\* the same rows are held in another order: rows i and i + 1 change places
Rearrange(i) ==
    /\ i \in 1..(Len(rows) - 1)
    /\ rows' = [rows EXCEPT ![i] = rows[i + 1], ![i + 1] = rows[i]]
    /\ UNCHANGED <<picks, draft, celebs, visible, pickVars, bAlive, boardLife, exportVars, bTurnSeat, bTotal, bLoading, bErr, bLoads,
                   fetches, boardFeed, anyFailed>>

\* the rows a board can hold: distinct picks of distinct celebrities, of
\* two roster seats or of a seat outside the roster
SortRows ==
    [pick_number : 1..MaxRows, seat : {1, 2, R + 1}, celebrity_id : 1..MaxRows,
     celebrity_name : 1..NumNames, celebrity_age : {70, 80}]

SortInputs ==
    UNION {{q \in [1..n -> SortRows] :
              \A i, j \in 1..n : /\ q[i].celebrity_id = q[i].pick_number
                                  /\ (i # j => q[i].pick_number # q[j].pick_number)}
           : n \in 0..MaxRows}

\* a Board view that holds some rows, nothing in flight
InitSortView ==
    /\ bAlive = TRUE
    /\ rows \in SortInputs
    /\ bLoading = FALSE
    /\ bErr = NULL
    /\ bLoads = [i \in BoardLoadIds |-> FreeBoardLoad]
    /\ fetches = <<>>
    /\ boardFeed = <<>>
    /\ anyFailed = FALSE
    /\ bRtStatus = "subscribed"
    /\ bChannel = 1
    /\ bClosing = 0
    /\ bRich = FALSE
    /\ bTurnSeat = 0
    /\ bTotal = 0
    /\ lists = [p \in PLAYERS |-> <<>>]
    /\ csv = <<>>
    /\ field = <<>>

\* no Board view is open
NoBoardView ==
    /\ bAlive = FALSE
    /\ rows = <<>>
    /\ bLoading = TRUE
    /\ bErr = NULL
    /\ bLoads = [i \in BoardLoadIds |-> FreeBoardLoad]
    /\ fetches = <<>>
    /\ boardFeed = <<>>
    /\ anyFailed = FALSE
    /\ bRtStatus = "connecting"
    /\ bChannel = 0
    /\ bClosing = 0
    /\ bRich = FALSE
    /\ bTurnSeat = 0
    /\ bTotal = 0
    /\ lists = [p \in PLAYERS |-> <<>>]
    /\ csv = <<>>

InitNoBoardView == NoBoardView /\ field = <<>>

\* the Board view after its first render and its mount effect
BoardMounted ==
    /\ bAlive = TRUE
    /\ rows = <<>>
    /\ bLoading = TRUE
    /\ bErr = NULL
    /\ bLoads = [i \in BoardLoadIds |-> IF i = MountLoad
                                        THEN [owner |-> "mount", phase |-> "sent", data |-> <<>>, turn |-> 0,
                                               count |-> NoCount]
                                        ELSE FreeBoardLoad]
    /\ fetches = <<>>
    /\ boardFeed = <<>>
    /\ anyFailed = FALSE
    /\ bRtStatus = "connecting"
    /\ bChannel = 1
    /\ bClosing = 0
    /\ bTurnSeat = 0
    /\ bTotal = 0
    /\ lists = [p \in PLAYERS |-> <<>>]
    /\ csv = <<>>
    /\ field = <<>>

\* the Board view of src/app/board/page.tsx
InitBoardView == BoardMounted /\ bRich = FALSE

\* the Board view of src/unnamed/part_000
InitRichBoardView == BoardMounted /\ bRich = TRUE

\* ------------------------------------------------------------------ claims
\* unresolved calls of the procedure that have not reached the backend yet
NumSent(q) == Cardinality({i \in 1..Len(q) : q[i].phase = "sent"})

\* a step that starts a call of the procedure
Invokes == NumSent(rpcs') > NumSent(rpcs)

\* a step in which confirmPick() resumes with the response of call i
Resolves(i) == rpcs[i].phase = "served" /\ rpcs' # rpcs /\ Len(rpcs') <= Len(rpcs)

Failed(call) == call.error \/ ~call.ok

CachedTurnIsMine == state # NullState /\ seatKind = "integer" /\ state.turn_seat = seat

ConfirmReloading == loads[ConfirmLoad].owner # "free"

\* C1: submission is single-flight: from the start of confirmPick until it
\* returns the view to idle (the call, then the reload after a success) the
\* view has at most one unresolved call, pickingId names its celebrity, and
\* no step starts a call while one is unresolved
C1_SingleFlight ==
    /\ Len(rpcs) + (IF ConfirmReloading THEN 1 ELSE 0) <= 1
    /\ rpcs # <<>> => pickingId = rpcs[1].p_celebrity_id
    /\ ConfirmReloading => pickingId # NoId

\* C1 witness: a call is in flight while the sheet still offers Confirm on the view's turn
C1_Witness ==
    /\ Len(rpcs) = 1
    /\ pendingPick # NoId
    /\ CachedTurnIsMine

\* C2: a call of the procedure starts only in a state whose cached turn_seat
\* is the view's seat (a null cache is no match); a confirm in any other state
\* changes nothing
C2_NoCallOffTurn ==
    [][/\ Invokes => CachedTurnIsMine
       /\ (ConfirmPick /\ ~CachedTurnIsMine) => UNCHANGED vars]_vars

\* C2 witness: the sheet is open and the cached turn has moved to another seat
C2_Witness ==
    /\ pendingPick # NoId
    /\ pickingId = NoId
    /\ state # NullState
    /\ state.turn_seat # seat

\* C3: a pending selection is set only when the cached turn_seat is the view's
\* seat and no submission is in flight; selecting a celebrity in any other
\* state leaves the pending selection and the error unchanged
C3_SelectGate ==
    [][/\ (pendingPick' # pendingPick /\ pendingPick' # NoId) => (CachedTurnIsMine /\ pickingId = NoId)
       /\ ((\E c \in Celebs : OnPick(c)) /\ ~(CachedTurnIsMine /\ pickingId = NoId))
             => UNCHANGED <<pendingPick, err>>]_vars

\* C3 witness: a celebrity is pending, selected on the view's turn with nothing in flight
C3_Witness ==
    /\ pendingPick # NoId
    /\ pickingId = NoId
    /\ err = NULL
    /\ CachedTurnIsMine
    /\ rpcs = <<>>

C5_NoAutoRetry ==
    [][Invokes => (ConfirmPick /\ pickingId = NoId /\ Len(rpcs') = Len(rpcs) + 1)]_vars

\* C5 witness: a call was rejected by the procedure and nothing is in flight
C5_Witness ==
    /\ err = NotYourTurnMsg
    /\ pickingId = NoId
    /\ rpcs = <<>>
    /\ pendingPick # NoId

\* the pick_number of the Pick of celebrity c (0 when c is not picked)
PickNumberOf(c) ==
    IF c \in PickedCelebs
    THEN (CHOOSE i \in 1..Len(picks) : picks[i].celebrity_id = c)
    ELSE 0

\* the cache holds the backend state of the pick of c or a later one, and c
\* has left the available list
Reconciled(c) ==
    /\ c \notin available
    /\ state # NullState
    /\ state.pick_number >= PickNumberOf(c)
    /\ PickNumberOf(c) > 0

ConfirmReloadFailed == loads[ConfirmLoad].st = "fail" \/ loads[ConfirmLoad].av = "fail"

\* C6: when a call resolves with ok true the pending selection is cleared and
\* a reload of both DraftState and the available pool is started; and from the
\* moment the procedure has returned ok true for celebrity c the view is
\* eventually reconciled with that pick, unless a query of that reload fails
C6_ReloadAfterSuccess ==
    /\ [][\A i \in 1..Len(rpcs) :
            (Resolves(i) /\ ~Failed(rpcs[i])) =>
               /\ pendingPick' = NoId
               /\ loads'[ConfirmLoad] = loadAll("confirm")]_vars
    /\ \A c \in Celebs :
         (\E i \in 1..Len(rpcs) :
             rpcs[i].phase = "served" /\ rpcs[i].ok /\ rpcs[i].p_celebrity_id = c)
           ~> (Reconciled(c) \/ ConfirmReloadFailed)

\* C6 witness: the reload after the view's own pick holds the backend's answer
\* (the state of that pick or later, the pool without the picked celebrity)
\* while the cache is still the one from before the pick and no event is on its way
C6_Witness ==
    /\ ConfirmReloading
    /\ loads[ConfirmLoad].st = "ok"
    /\ loads[ConfirmLoad].av = "ok"
    /\ pendingPick = NoId
    /\ PickNumberOf(pickingId) > 0
    /\ pickingId \notin loads[ConfirmLoad].adata
    /\ loads[ConfirmLoad].sdata.pick_number >= PickNumberOf(pickingId)
    /\ state.pick_number < PickNumberOf(pickingId)
    /\ pickingId \in available
    /\ pickFeed = <<>>

\* C7: when a call resolves with a transport error or with ok false, the
\* pending selection is cleared (the confirmation sheet is closed)
C7_PendingClearedOnFailure ==
    [][\A i \in 1..Len(rpcs) :
         (Resolves(i) /\ Failed(rpcs[i])) => pendingPick' = NoId]_vars

\* C8: no two rows of the Board view's local rows share a pick_number
C8_UniquePickNumbers ==
    \A i, j \in 1..Len(rows) : i # j => rows[i].pick_number # rows[j].pick_number

\* C8 witness: the fetched row of an insert event is about to be applied while
\* the local rows already hold that pick_number
C8_Witness ==
    \E j \in 1..Len(fetches) :
        /\ fetches[j].phase = "ok"
        /\ fetches[j].pick_number \in PickNumbers(rows)

\* a step in which the INSERT handler resumes with the response of fetch j
FetchResolves(j) == fetches[j].phase \in {"ok", "fail"} /\ fetches' = RemoveAt(fetches, j)

\* a step that starts a load() of the Board view
BoardLoadStarts == \E i \in BoardLoadIds : bLoads[i].phase # "sent" /\ bLoads'[i].phase = "sent"

\* C9: when the targeted fetch of an insert event fails (a query error or no
\* row), the Board view starts a full reload
C9_FetchFailureReloads ==
    [][\A j \in 1..Len(fetches) :
         (FetchResolves(j) /\ fetches[j].phase = "fail") => BoardLoadStarts]_vars

RowSet(q) == {q[i] : i \in 1..Len(q)}

\* nothing of the Board view is in flight: no load, no fetch, no event
BoardQuiescent ==
    /\ \A i \in BoardLoadIds : bLoads[i].owner = "free"
    /\ fetches = <<>>
    /\ boardFeed = <<>>

\* C10: once every request and event of the Board view has been delivered
\* (none of them failed or was malformed), the local rows are the backend's picks
C10_BoardConverges ==
    (BoardQuiescent /\ ~anyFailed) => RowSet(rows) = RowSet(BackendBoard)

\* a step in which the Board view's handler of the event kind ev runs
BoardHandles(ev) ==
    /\ boardFeed # <<>>
    /\ Head(boardFeed).event = ev
    /\ boardFeed' = Tail(boardFeed)

\* C12: every Pick update event handled by the Board view starts a full
\* reload (the board query, error cleared), and the handler leaves the local
\* rows as they are
C12_UpdateReloads ==
    [][BoardHandles("UPDATE") =>
         /\ BoardLoadStarts
         /\ bErr' = NULL
         /\ rows' = rows
         /\ fetches' = fetches]_vars

\* C12 witness: the reload of an update event is in flight while rows are held
C12_Witness ==
    /\ rows # <<>>
    /\ \E i \in BoardLoadIds : bLoads[i].owner = "update" /\ bLoads[i].phase = "sent"

\* C13: a Pick deletion event removes from the local rows exactly the rows
\* with the deleted row's celebrity_id, keeps the others in their order, and
\* starts no reload and no fetch
C13_DeleteRemovesByCelebrity ==
    [][BoardHandles("DELETE") =>
         /\ rows' = SelectSeq(rows, LAMBDA r : r.celebrity_id # Head(boardFeed).celebrity_id)
         /\ bLoads' = bLoads
         /\ fetches' = fetches
         /\ bErr' = bErr]_vars

\* C13 witness: a deletion event for a celebrity held locally is about to be
\* handled, next to a row of another celebrity
C13_Witness ==
    /\ boardFeed # <<>>
    /\ Head(boardFeed).event = "DELETE"
    /\ Len(rows) >= 2
    /\ \E i \in 1..Len(rows) : rows[i].celebrity_id = Head(boardFeed).celebrity_id
    /\ \E i \in 1..Len(rows) : rows[i].pick_number # Head(boardFeed).pick_number

\* the indices of the highlighted local rows
Highlighted == {i \in 1..Len(rows) : isHighlighted(rows[i])}

\* C20: in every Board-view state exactly one local row is highlighted, the
\* one whose pick_number is the maximum over all local rows; none when there
\* are no rows
C20_HighlightIsMax ==
    IF rows = <<>>
    THEN Highlighted = {}
    ELSE /\ Cardinality(Highlighted) = 1
         /\ \A i \in Highlighted : \A j \in 1..Len(rows) : rows[j].pick_number <= rows[i].pick_number

\* C20 witness: rows of two seats are held, the later pick first
C20_Witness ==
    /\ Len(rows) = 2
    /\ rows[1].pick_number > rows[2].pick_number
    /\ rows[1].seat # rows[2].seat
    /\ Highlighted = {1}

\* C18: the per-seat lists do not depend on the order in which the rows are
\* held: when the same rows change places, every seat's list stays the same
\* (also for two rows of one seat with equal age and equal name)
C18_OrderIndependent ==
    [][(\E i \in 1..(Len(rows) - 1) : Rearrange(i)) => bySeat' = bySeat]_vars

\* the rows of q, as a set
SeatRows(q, s) == {q[i] : i \in {k \in 1..Len(q) : q[k].seat = s}}

\* q is in the order of the comparator: age descending, then name ascending
IsSorted(q) ==
    \A i, j \in 1..Len(q) :
        i < j => \/ q[i].celebrity_age > q[j].celebrity_age
                 \/ /\ q[i].celebrity_age = q[j].celebrity_age
                    /\ q[i].celebrity_name <= q[j].celebrity_name

\* C19: the seat lists partition the rows (each seat's list holds the rows of
\* that seat, each once, and every row is in the list of its seat), each list
\* is sorted, and the second sort that exportBoardCsv applies to a seat's list
\* gives that list again
C19_SortIdempotent ==
    /\ [](\A s \in DOMAIN bySeat :
            /\ {bySeat[s][k] : k \in 1..Len(bySeat[s])} = SeatRows(rows, s)
            /\ Len(bySeat[s]) = Cardinality(SeatRows(rows, s))
            /\ IsSorted(bySeat[s]))
    /\ [](\A i \in 1..Len(rows) : rows[i].seat \in DOMAIN bySeat)
    /\ [][ExportBoardCsv => \A p \in PLAYERS : lists'[p] = bySeat[p]]_vars

\* C19 witness: an export has sorted again a seat's list in which two rows
\* compare equal and a third does not
C19_Witness ==
    \E p \in PLAYERS :
        /\ Len(lists[p]) = MaxRows
        /\ lists[p] = bySeat[p]
        /\ \E i, j \in 1..Len(lists[p]) : i # j /\ compareRows(lists[p][i], lists[p][j]) = 0
        /\ \E i, j \in 1..Len(lists[p]) : compareRows(lists[p][i], lists[p][j]) # 0
        /\ rows # lists[p]

\* the select and confirm gates, from the seat, the cached DraftState, the
\* pending selection and the in-flight flag alone
SelectEnabled == isValidSeat /\ CachedTurnIsMine /\ pickingId = NoId
ConfirmEnabled == isValidSeat /\ CachedTurnIsMine /\ pendingPick # NoId /\ pickingId = NoId

\* C17: the connection status is advisory: whatever the status is, select
\* and confirm are enabled exactly by the seat, the cached DraftState, the
\* pending selection and the in-flight flag, an enabled select sets the
\* pending selection, an enabled confirm starts the call for the seat and the
\* pending celebrity, and a change of status changes none of these
C17_StatusAdvisory ==
    /\ [](onPickGuard <=> SelectEnabled)
    /\ [](confirmPickGuard <=> ConfirmEnabled)
    /\ [][\A c \in Celebs : (OnPick(c) /\ SelectEnabled) => pendingPick' = c]_vars
    /\ [][(ConfirmPick /\ ConfirmEnabled) => rpcs' = Append(rpcs, RpcCall(seat, pendingPick))]_vars
    /\ [][rtStatus' # rtStatus =>
            UNCHANGED <<seat, state, available, pendingPick, pickingId, rpcs, err>>]_vars

\* C17 witness: a call is started while the subscription is not live
C17_Witness ==
    /\ rtStatus \in {"channel_error", "timed_out", "closed"}
    /\ ConfirmEnabled
    /\ ENABLED (ConfirmPick /\ Len(rpcs') = 1)

\* the Pick view's fields and the Board view's fields that handlers set
pickFields == <<state, available, err, loading, rtStatus>>
boardFields == <<rows, bErr, bLoading, bRtStatus, bTurnSeat>>

\* C11: after the cleanup of a view's effect has run, nothing that the
\* effect had started (a reload in flight, an event of its channel, the status
\* callback of the removed channel) changes the view's fields: not while the
\* view stays unmounted, and not when run() of a cleaned-up effect resumes
C11_NoUpdateAfterCleanup ==
    [][/\ (~mounted /\ ~mounted') => UNCHANGED pickFields
       /\ (~bAlive /\ ~bAlive') => UNCHANGED boardFields
       /\ LoadDone(OldMountLoad) => UNCHANGED pickFields]_vars

\* a step in which the Pick view's death_draft_state handler runs
PickHandlesState ==
    /\ pickFeed # <<>>
    /\ Head(pickFeed).table = "death_draft_state"
    /\ pickFeed' = Tail(pickFeed)

\* a step that starts a read of the Pick view
PickLoadStarts == \E i \in LoadIds : loads[i].av # "sent" /\ loads'[i].av = "sent"

\* C14: a DraftState change event (the new row of the singleton) sets the
\* cached fields to the payload's values and sends no query: in the Pick view
\* turn_seat and pick_number, in the richer Board view the turn seat; the
\* available pool and the board rows stay as they are
C14_StateEventPatches ==
    /\ [][(PickHandlesState /\ Head(pickFeed).new.id = 1) =>
             /\ state'.turn_seat = Head(pickFeed).new.turn_seat
             /\ state'.pick_number = Head(pickFeed).new.pick_number
             /\ available' = available
             /\ loads' = loads]_vars
    /\ [][BoardHandles("STATE") =>
             /\ bTurnSeat' = Head(boardFeed).turn_seat
             /\ rows' = rows
             /\ bLoads' = bLoads
             /\ fetches' = fetches]_vars

\* C14 witness: the event of a pick is about to be handled by a Pick view
\* whose cache is older, with the picked celebrity still in its pool
C14_Witness ==
    /\ pickFeed # <<>>
    /\ Head(pickFeed).table = "death_draft_state"
    /\ state # NullState
    /\ Head(pickFeed).new.pick_number > state.pick_number
    /\ Head(pickFeed).new.turn_seat # state.turn_seat
    /\ available # BackendAvailable

\* C15: a DraftState event with a malformed payload (the new row is missing,
\* or lacks turn_seat) makes the view start a full reload, and the cached
\* turn stays as it is (no null turn seat is written)
C15_MalformedReloads ==
    /\ [][(PickHandlesState /\ Head(pickFeed).new \in MalformedStates) =>
             /\ PickLoadStarts
             /\ state' = state]_vars
    /\ [][(BoardHandles("STATE") /\ Head(boardFeed).turn_seat = 0) =>
             /\ BoardLoadStarts
             /\ bTurnSeat' = bTurnSeat]_vars

\* C16: a view has one open subscription exactly while it is mounted (the
\* Pick view: mounted with a valid seat), and none otherwise, through every
\* sequence of mounts, changes of seat and unmounts
C16_OneSubscription ==
    /\ channel = (IF mounted /\ isValidSeat THEN 1 ELSE 0)
    /\ bChannel = (IF bAlive THEN 1 ELSE 0)
    /\ alive <=> (channel = 1)

\* C16 witness: a change of seat has removed a subscription (its CLOSED
\* report is due) and opened the one of the new seat
C16_Witness ==
    /\ mounted
    /\ channel = 1
    /\ closing = 1
    /\ loads[OldMountLoad].owner = "cleaned"

\* a reader of CSV text.  A character is inside a quoted field when an odd
\* number of double quotes precedes it; a comma or a newline outside the
\* quoted fields separates fields or records
Separators(t, c) ==
    {i \in 1..Len(t) : t[i] = c /\ Cardinality({j \in 1..(i - 1) : t[j] = "\""}) % 2 = 0}

\* the k-th of the places S (0 and Len + 1 stand before and behind them)
Place(S, k, len) ==
    IF k = 0 THEN 0
    ELSE IF k = Cardinality(S) + 1 THEN len + 1
    ELSE CHOOSE i \in S : Cardinality({j \in S : j < i}) = k - 1

\* the parts of t between its separators c
Split(t, c) ==
    CHOOSE parts \in {[k \in 1..(Cardinality(S) + 1) |->
                          SubSeq(t, Place(S, k - 1, Len(t)) + 1, Place(S, k, Len(t)) - 1)]
                      : S \in {Separators(t, c)}} : TRUE

RECURSIVE undouble(_)
\* every pair of double quotes read as one
undouble(v) ==
    IF v = <<>> THEN <<>>
    ELSE IF Head(v) = "\"" /\ Len(v) >= 2 /\ v[2] = "\"" THEN <<"\"">> \o undouble(Tail(Tail(v)))
    ELSE <<Head(v)>> \o undouble(Tail(v))

\* the string a CSV field stands for
Unescape(f) ==
    IF f # <<>> /\ f[1] = "\"" THEN undouble(SubSeq(f, 2, Len(f) - 1)) ELSE f

\* the records of a CSV text, each the sequence of the strings of its fields
ParseCsv(t) ==
    LET FieldsOf(rec) == CHOOSE fs \in {[k \in 1..Len(f) |-> Unescape(f[k])] : f \in {Split(rec, ",")}} : TRUE
    IN CHOOSE g \in {[r \in 1..Len(recs) |-> FieldsOf(recs[r])] : recs \in {Split(t, "\n")}} : TRUE

\* the longest of the roster seats' lists
LongestList == CHOOSE n \in {0} \cup {Len(bySeat[p]) : p \in PLAYERS} :
                   \A p \in PLAYERS : Len(bySeat[p]) <= n

\* C21: the exported CSV reads back as a header of 2 * 6 = 12 columns (for
\* each seat in roster order the player's name, then the name followed by
\* " Age") and as many data rows of 12 fields as the longest seat list has
\* rows (none for an empty board); data row i holds for each seat the name
\* and the age of the i-th row of the seat's sorted list, and two empty
\* strings for a seat with fewer rows
C21_CsvGrid ==
    [][ExportBoardCsv =>
        \A g \in {ParseCsv(csv')} :
           /\ Len(g) = 1 + LongestList
           /\ \A r \in 1..Len(g) : Len(g[r]) = 12
           /\ \A p \in PLAYERS :
                /\ g[1][2 * p - 1] = <<PlayerNames[p]>>
                /\ g[1][2 * p] = <<PlayerNames[p], " ", "A", "g", "e">>
                /\ \A i \in 1..LongestList :
                     IF i <= Len(bySeat[p])
                     THEN /\ g[i + 1][2 * p - 1] = CelebrityName(bySeat[p][i].celebrity_name)
                          /\ g[i + 1][2 * p] = String(bySeat[p][i].celebrity_age)
                     ELSE /\ g[i + 1][2 * p - 1] = <<>>
                          /\ g[i + 1][2 * p] = <<>>]_vars

\* C21 witness: a board with two picks of one seat and one of another, a
\* name with a comma among them, has been exported
C21_Witness ==
    /\ csv # <<>>
    /\ \A p \in PLAYERS : lists[p] = bySeat[p]
    /\ \E p, q \in PLAYERS : Len(lists[p]) = 2 /\ Len(lists[q]) = 1
    /\ \E i \in 1..Len(rows) : rows[i].seat \in PLAYERS /\ rows[i].celebrity_name > 1

\* C22: escape() wraps a field in double quotes exactly when the field holds
\* a newline, a carriage return, a comma or a double quote; between the
\* wrapping quotes every double quote of the field is doubled and every other
\* character is as it was; any other field is returned unchanged; reading
\* the result as a CSV field gives the field back
C22_Escaping ==
    [][EscapeField =>
        LET out == csv'
            special == \E i \in 1..Len(field) : field[i] \in {"\n", "\r", ",", "\""}
            quotesBefore(i) == Cardinality({j \in 1..(i - 1) : field[j] = "\""})
        IN /\ special <=> (Len(out) >= 2 /\ out[1] = "\"" /\ out[Len(out)] = "\"")
           /\ ~special => out = field
           /\ special =>
                /\ Len(out) = Len(field) + quotesBefore(Len(field) + 1) + 2
                /\ \A i \in 1..Len(field) :
                     /\ out[1 + i + quotesBefore(i)] = field[i]
                     /\ field[i] = "\"" => out[2 + i + quotesBefore(i)] = "\""
           /\ Unescape(out) = field]_vars

\* C22 witness: a field with a double quote and a carriage return has been escaped
C22_Witness ==
    /\ \E i \in 1..Len(field) : field[i] = "\""
    /\ \E i \in 1..Len(field) : field[i] = "\r"
    /\ Len(csv) = Len(field) + 3

\* the route parameter denotes one of the integers 1..6
DenotesSeat == seatKind = "integer" /\ seat \in 1..6

\* C23: the Pick route accepts a seat parameter only when it denotes one of
\* the integers 1..6; for every other value (not a number, empty, 0, 7,
\* negative, or not an integer, such as 2.5) the view shows the invalid-seat
\* page, loads nothing, opens no subscription and has no call of the
\* procedure
C23_SeatGate ==
    mounted =>
        /\ isValidSeat <=> DenotesSeat
        /\ ~DenotesSeat =>
             /\ \A i \in LoadIds : loads[i].owner = "free"
             /\ channel = 0
             /\ rpcs = <<>>
             /\ state = NullState

\* C24: the Board view only observes: whenever the Picks table, DraftState
\* or the Celebrities table changes, the step is a call of the make-pick
\* procedure (the one a Pick view's confirm has sent, or another client's) or
\* an out-of-band deletion, never a step of a Board view (mount, reload,
\* insert, delete or update event, CSV or image export) nor any other step
\* of a Pick view
C24_BoardObserves ==
    [][backendVars' # backendVars =>
         \/ \E i \in 1..Len(rpcs) : RpcServe(i)
         \/ \E c \in Celebs : ExternalPick(c)
         \/ \E k \in 1..Len(picks) : AdminDelete(k)]_vars

\* C24 witness: a Board view has handled the events of a pick and of its
\* deletion and has exported the board
C24_Witness ==
    /\ bAlive
    /\ draft.pick_number >= 1
    /\ picks = <<>>
    /\ boardFeed = <<>>
    /\ fetches = <<>>
    /\ ~bLoading
    /\ csv # <<>>

\* C25: every failure of a read a view has issued (initial load, manual
\* refresh, reload after a change-feed event, reload on a visibility change,
\* reload after a successful pick) leaves a load error that the user sees:
\* when the response of a failed read is handled, the error field is not null
C25_ReadFailureSurfaced ==
    [][\A i \in LoadIds :
         (LoadDone(i) /\ mounted /\ (loads[i].st = "fail" \/ loads[i].av = "fail")) => err' # NULL]_vars

\* the call r of this view was answered after another seat's pick of the
\* same celebrity had been committed
LostRace(r) ==
    /\ r.phase = "served"
    /\ ~r.error
    /\ \E k \in 1..Len(picks) : picks[k].celebrity_id = r.p_celebrity_id /\ picks[k].seat # r.p_seat

\* C26: when the calls of two views of different seats for the same
\* celebrity race (each past its own gate, possibly on a stale cached turn),
\* at most one is answered ok: the celebrity_id values of the Picks are
\* pairwise distinct in every backend state, a call for a celebrity that
\* already has a Pick is answered ok false and adds no Pick, and the view
\* that lost shows an error
C26_OneWinner ==
    /\ [](\A j, k \in 1..Len(picks) : j # k => picks[j].celebrity_id # picks[k].celebrity_id)
    /\ [][\A i \in 1..Len(rpcs) :
            (RpcServe(i) /\ rpcs[i].p_celebrity_id \in PickedCelebs) => ~rpcs'[i].ok /\ picks' = picks]_vars
    /\ [](\A i \in 1..Len(rpcs) : LostRace(rpcs[i]) => ~rpcs[i].ok)
    /\ [][\A i \in 1..Len(rpcs) : (Resolves(i) /\ LostRace(rpcs[i])) => err' # NULL]_vars

\* C26 witness: this view's call for a celebrity was in flight when another
\* seat's pick of that celebrity was committed, and has been answered
C26_Witness ==
    \E i \in 1..Len(rpcs) :
        /\ LostRace(rpcs[i])
        /\ pickingId = rpcs[i].p_celebrity_id
        /\ err = NULL

\* C27: from no picks and turn_seat 1, every successful pick changes
\* DraftState once: turn_seat goes to the next roster seat (6 to 1) and
\* pick_number goes up by one, so that in every backend state turn_seat is
\* (number of picks mod 6) + 1 and the k-th pick is seat ((k - 1) mod 6) + 1's;
\* a call for a seat other than turn_seat is refused, adds no Pick and
\* changes no field of DraftState
C27_TurnRotation ==
    /\ [](draft.turn_seat = (Len(picks) % 6) + 1)
    /\ [](draft.pick_number = Len(picks))
    /\ [](\A k \in 1..Len(picks) : picks[k].seat = ((k - 1) % 6) + 1 /\ picks[k].pick_number = k)
    /\ [][picks' # picks =>
            /\ Len(picks') = Len(picks) + 1
            /\ draft'.turn_seat = (IF draft.turn_seat = 6 THEN 1 ELSE draft.turn_seat + 1)
            /\ draft'.pick_number = draft.pick_number + 1]_vars
    /\ [][draft' # draft => picks' # picks]_vars
    /\ [][\A s \in PLAYERS, c \in celebs :
            (ExternalCall(s, c) /\ s # draft.turn_seat) =>
                ~MakePickOk(s, c) /\ picks' = picks /\ draft' = draft]_vars

\* C27 witness: seven picks have been made, the turn has gone round the roster
C27_Witness ==
    /\ Len(picks) = 7
    /\ picks[7].seat = 1
    /\ draft.turn_seat = 2

\* a full reload of the Pick view starts: both queries are sent
FullReloadStarts ==
    \E i \in LoadIds : loads[i].owner = "free" /\ loads'[i].st = "sent" /\ loads'[i].av = "sent"

\* C28: while a view is mounted, each transition of the page to visible
\* starts a full reload of the view's cached data (so a view whose
\* subscription has silently stopped catches up); after the unmount a
\* visibility change starts no reload
C28_VisibleReloads ==
    [][(~visible /\ visible') =>
         /\ (mounted /\ isValidSeat) => FullReloadStarts
         /\ bAlive => BoardLoadStarts
         /\ ~mounted => loads' = loads
         /\ ~bAlive => bLoads' = bLoads]_vars

\* C29: a failed board reload leaves the local state as it was: when the
\* board query of load() reports an error, the rows (and in
\* src/unnamed/part_000 the cached turn seat and the celebrity total) are what
\* they were and the error field holds the query's message; when the board
\* query succeeds, the rows become the returned rows
C29_FailedReloadKeeps ==
    [][\A i \in BoardLoadIds :
         loadDone(i) =>
            IF bLoads[i].phase = "fail"
            THEN /\ rows' = rows
                 /\ bTurnSeat' = bTurnSeat
                 /\ bTotal' = bTotal
                 /\ bErr' = LoadErrMsg
            ELSE rows' = bLoads[i].data]_vars

\* C29 witness: a reload has failed in a Board view that holds a row, a turn
\* seat and the celebrity total
C29_Witness ==
    /\ bErr = LoadErrMsg
    /\ rows # <<>>
    /\ bTurnSeat # 0
    /\ bTotal > 0
    /\ \A i \in BoardLoadIds : bLoads[i].owner = "free"

\* C30: in a Pick view the cached DraftState never moves backwards: whatever
\* the order of the DraftState change events and of the responses of full
\* reloads, the cached pick_number does not go down (a reload response
\* read before a pick was committed does not overwrite the newer turn_seat
\* and pick_number of a change event)
C30_CacheMonotonic ==
    [][state'.pick_number >= state.pick_number]_vars

\* C31: in every Board-view state no two local rows share a celebrity_id,
\* whatever the order of full reloads, insert events and delete events (a
\* pick deleted out of band and the same celebrity picked again under a new
\* pick_number while an older reload response is in flight included)
C31_UniqueCelebrities ==
    \A i, j \in 1..Len(rows) : i # j => rows[i].celebrity_id # rows[j].celebrity_id

\* C32: a successful pick never shows an error: when confirmPick finishes
\* after the procedure has answered ok true (the reload that follows the
\* pick has settled), the error field is null, whether the reload succeeded
\* or failed
C32_SuccessShowsNoError ==
    [][(LoadDone(ConfirmLoad) /\ loads[ConfirmLoad].owner = "confirm") => err' = NULL]_vars

\* a call of the procedure has been made and confirmPick() has not yet resumed
\* with its response
InFlight == rpcs # <<>>

\* C33: while a submission is in flight the sheet shows the celebrity whose id
\* was sent, and a click on another celebrity, on Cancel or on the backdrop
\* leaves the pending selection unchanged
C33_PendingFrozen ==
    /\ [](InFlight => \A i \in 1..Len(rpcs) : pendingPick = rpcs[i].p_celebrity_id)
    /\ [][(InFlight /\ ((\E c \in Celebs : OnPick(c)) \/ CancelPick \/ BackdropClick))
              => pendingPick' = pendingPick]_vars

\* a call is in flight while the turn is still the view's and another
\* celebrity is on the list to click
C33_Witness ==
    /\ InFlight
    /\ pendingPick # NoId
    /\ pickingId = pendingPick
    /\ isMyTurn
    /\ \E c \in available : c # pendingPick

\* C34: every call of the procedure a Pick view makes is made by confirmPick,
\* carries the view's route seat (one of the integers 1..6) as p_seat and the
\* pending selection of that moment as p_celebrity_id; the pending selection
\* is a celebrity only by the user's click on its row; and the calls the view
\* has in flight name its seat
C34_OwnSeatOwnPick ==
    /\ [][Invokes =>
             /\ ConfirmPick
             /\ Len(rpcs') = Len(rpcs) + 1
             /\ rpcs'[Len(rpcs')].p_seat = seat
             /\ seatKind = "integer" /\ seat \in 1..6
             /\ pendingPick # NoId
             /\ rpcs'[Len(rpcs')].p_celebrity_id = pendingPick]_vars
    /\ [][(pendingPick' # pendingPick /\ pendingPick' # NoId)
              => \E c \in Celebs : OnPick(c) /\ pendingPick' = c /\ c \in available]_vars
    /\ [](\A i \in 1..Len(rpcs) : rpcs[i].p_seat = seat /\ rpcs[i].p_celebrity_id \in Celebs)

\* seat 2's view has sent a call for the celebrity of its sheet
C34_Witness ==
    /\ seat = 2
    /\ seatKind = "integer"
    /\ \E i \in 1..Len(rpcs) :
          /\ rpcs[i].phase = "sent"
          /\ rpcs[i].p_seat = 2
          /\ rpcs[i].p_celebrity_id = pendingPick

\* ------------------------------------------------------------ specifications
InitPick == InitBackend /\ InitPickView /\ InitNoBoardView

NextPick ==
    \/ \E c \in Celebs : OnPick(c)
    \/ ConfirmPick
    \/ CancelPick
    \/ BackdropClick
    \/ \E i \in 1..Len(rpcs) : RpcServe(i)
    \/ \E i \in 1..Len(rpcs) : RpcFail(i)
    \/ \E i \in 1..Len(rpcs) : RpcResolve(i)
    \/ \E i \in LoadIds : ServeLoad(i)
    \/ \E i \in LoadIds : LoadDone(i)
    \/ VisibilityChange
    \/ HandleRefresh
    \/ OnStateEvent
    \/ OnPicksEvent
    \/ \E c \in Celebs : ExternalPick(c)

SpecPick == InitPick /\ [][NextPick]_vars

\* the Pick view while the change feed delivers nothing to it: every event of
\* a commit is lost
NextPickSilent ==
    \/ \E c \in Celebs : OnPick(c)
    \/ ConfirmPick
    \/ CancelPick
    \/ BackdropClick
    \/ \E i \in 1..Len(rpcs) : RpcServe(i) /\ UNCHANGED pickFeed
    \/ \E i \in 1..Len(rpcs) : RpcFail(i)
    \/ \E i \in 1..Len(rpcs) : RpcResolve(i)
    \/ \E i \in LoadIds : ServeLoad(i)
    \/ \E i \in LoadIds : LoadDone(i)
    \/ VisibilityChange
    \/ HandleRefresh
    \/ \E c \in Celebs : ExternalPick(c) /\ UNCHANGED pickFeed

\* every request is answered and every response is handled
FairSpecPickSilent ==
    /\ InitPick
    /\ [][NextPickSilent]_vars
    /\ \A i \in LoadIds : WF_vars(ServeLoad(i)) /\ WF_vars(LoadDone(i))
    /\ WF_vars(\E i \in 1..Len(rpcs) : RpcResolve(i))

\* the Pick view with the status reports of its subscription, while the
\* change feed delivers nothing
NextPickStatus ==
    \/ NextPickSilent
    \/ \E s \in Statuses : OnStatus(s)

SpecPickStatus == InitPick /\ [][NextPickStatus]_vars

\* the values the route parameter takes: two roster seats and a seat
\* outside the roster
SeatChanges == SeatParams \cup {<<"7">>}

\* one view, a Pick view or the Board view of src/unnamed/part_000
InitViews ==
    /\ InitBackend
    /\ \/ InitPickView /\ InitNoBoardView
       \/ InitNoPickView /\ InitRichBoardView

\* the view through its mounts and unmounts, with the events and the status
\* reports of its channel
NextViews ==
    \/ \E c \in Celebs : ExternalPick(c) /\ Len(picks) < MaxLifePicks
    \/ Unmount
    \/ \E s \in SeatChanges : SeatChange(s)
    \/ \E s \in SeatChanges : Mount(s) /\ seat # 0
    \/ \E s \in Statuses : OnStatus(s)
    \/ OnClosed
    \/ \E i \in LoadIds : ServeLoad(i)
    \/ \E i \in LoadIds : LoadDone(i)
    \/ OnStateEvent
    \/ OnPicksEvent
    \/ BoardUnmount
    \/ BoardMount /\ bRich
    \/ \E s \in Statuses : BoardStatus(s)
    \/ BoardClosed
    \/ \E i \in BoardLoadIds : ServeBoardLoad(i)
    \/ \E i \in BoardLoadIds : loadDone(i)
    \/ OnInsert
    \/ \E j \in 1..Len(fetches) : ServeFetch(j)
    \/ \E j \in 1..Len(fetches) : FetchDone(j)
    \/ OnBoardStateEvent

SpecViews == InitViews /\ [][NextViews]_vars

\* the mounted view and the events of its channel, well-formed or not
NextEvents ==
    \/ \E c \in Celebs : ExternalPick(c)
    \/ \E i \in LoadIds : ServeLoad(i)
    \/ \E i \in LoadIds : LoadDone(i)
    \/ OnStateEvent
    \/ OnPicksEvent
    \/ \E m \in MalformedStates : MalformedStateEvent(m)
    \/ \E i \in BoardLoadIds : ServeBoardLoad(i)
    \/ \E i \in BoardLoadIds : loadDone(i)
    \/ OnInsert
    \/ \E j \in 1..Len(fetches) : ServeFetch(j)
    \/ \E j \in 1..Len(fetches) : FetchDone(j)
    \/ OnBoardStateEvent
    \/ MalformedBoardStateEvent

SpecEvents == InitViews /\ [][NextEvents]_vars

InitBoard == InitBackend /\ InitNoPickView /\ InitBoardView

NextBoard ==
    \/ \E c \in Celebs : ExternalPick(c)
    \/ AdminUpdate
    \/ MalformedInsert
    \/ \E i \in BoardLoadIds : ServeBoardLoad(i)
    \/ \E i \in BoardLoadIds : loadDone(i)
    \/ OnInsert
    \/ OnUpdate
    \/ \E j \in 1..Len(fetches) : ServeFetch(j)
    \/ \E j \in 1..Len(fetches) : FetchDone(j)

SpecBoard == InitBoard /\ [][NextBoard]_vars

\* the Board view under out-of-band corrections of the Picks table; the feed
\* delivers every insertion once
NextBoardAdmin ==
    \/ \E c \in Celebs : ExternalPick(c) /\ Len(boardFeed') <= Len(boardFeed) + 1
    \/ \E k \in 1..Len(picks) : AdminDelete(k)
    \/ AdminUpdate
    \/ \E i \in BoardLoadIds : ServeBoardLoad(i)
    \/ \E i \in BoardLoadIds : loadDone(i)
    \/ OnInsert
    \/ OnDelete
    \/ OnUpdate
    \/ \E j \in 1..Len(fetches) : ServeFetch(j)
    \/ \E j \in 1..Len(fetches) : FetchDone(j)

SpecBoardAdmin == InitBoard /\ [][NextBoardAdmin]_vars

\* the aggregation of a board, for every board of up to MaxRows rows
InitSort == InitBackend /\ InitNoPickView /\ InitSortView

NextSort ==
    \/ \E i \in 1..(Len(rows) - 1) : Rearrange(i)
    \/ ExportBoardCsv

SpecSort == InitSort /\ [][NextSort]_vars

\* escape() alone, given every string of up to MaxFieldLen characters
InitEscape == InitBackend /\ InitNoPickView /\ NoBoardView /\ InitField

NextEscape == EscapeField

SpecEscape == InitEscape /\ [][NextEscape]_vars

\* the Pick route opened with every kind of seat parameter
InitRoute == InitBackend /\ (\E s \in RouteParams : PickMounted(s)) /\ InitNoBoardView

NextRoute ==
    \/ \E c \in Celebs : OnPick(c)
    \/ ConfirmPick
    \/ CancelPick
    \/ \E i \in 1..Len(rpcs) : RpcServe(i)
    \/ \E i \in 1..Len(rpcs) : RpcResolve(i)
    \/ \E i \in LoadIds : ServeLoad(i)
    \/ \E i \in LoadIds : LoadDone(i)
    \/ OnStateEvent
    \/ OnPicksEvent
    \/ \E s \in Statuses : OnStatus(s)
    \/ \E c \in Celebs : ExternalPick(c) /\ Len(picks) < MaxLifePicks

SpecRoute == InitRoute /\ [][NextRoute]_vars

\* a client of either kind: a Pick view, or the Board view of
\* src/unnamed/part_000 with its exports and with out-of-band changes
InitClients ==
    /\ InitBackend
    /\ \/ InitPickView /\ InitNoBoardView
       \/ InitNoPickView /\ InitRichBoardView

NextClients ==
    \/ \E c \in Celebs : OnPick(c)
    \/ ConfirmPick
    \/ CancelPick
    \/ BackdropClick
    \/ \E i \in 1..Len(rpcs) : RpcServe(i) /\ UNCHANGED pickFeed
    \/ \E i \in 1..Len(rpcs) : RpcFail(i)
    \/ \E i \in 1..Len(rpcs) : RpcResolve(i)
    \/ \E i \in LoadIds : ServeLoad(i)
    \/ \E i \in LoadIds : LoadDone(i)
    \/ VisibilityChange
    \/ HandleRefresh
    \/ \E c \in Celebs : /\ ExternalPick(c)
                          /\ UNCHANGED pickFeed
                          /\ draft.pick_number < MaxLifePicks
                          /\ Len(boardFeed') <= Len(boardFeed) + 2
    \/ \E k \in 1..Len(picks) : AdminDelete(k)
    \/ AdminUpdate
    \/ \E i \in BoardLoadIds : ServeBoardLoad(i)
    \/ \E i \in BoardLoadIds : loadDone(i)
    \/ OnInsert
    \/ OnDelete
    \/ OnUpdate
    \/ OnBoardStateEvent
    \/ \E j \in 1..Len(fetches) : ServeFetch(j)
    \/ \E j \in 1..Len(fetches) : FetchDone(j)
    \/ ExportBoardCsv
    \/ ExportBoardImage

SpecClients == InitClients /\ [][NextClients]_vars

\* the backend alone, called by clients for any seat and any celebrity
InitBackendOnly == InitDraft /\ InitNoPickView /\ InitNoBoardView

NextBackendOnly == \E s \in PLAYERS, c \in celebs : ExternalCall(s, c)

SpecBackendOnly == InitBackendOnly /\ [][NextBackendOnly]_vars

\* a view of either kind while the page is hidden and shown again
InitVisibility ==
    /\ InitBackend
    /\ \/ InitPickView /\ InitNoBoardView
       \/ InitNoPickView /\ InitBoardView
       \/ InitNoPickView /\ InitRichBoardView

NextVisibility ==
    \/ PageHidden
    \/ PageVisible
    \/ \E c \in Celebs : ExternalPick(c) /\ Len(picks) < MaxLifePicks
    \/ Unmount
    \/ OnClosed
    \/ \E i \in LoadIds : ServeLoad(i)
    \/ \E i \in LoadIds : LoadDone(i)
    \/ OnStateEvent
    \/ OnPicksEvent
    \/ BoardUnmount
    \/ BoardClosed
    \/ \E i \in BoardLoadIds : ServeBoardLoad(i)
    \/ \E i \in BoardLoadIds : loadDone(i)
    \/ OnInsert
    \/ \E j \in 1..Len(fetches) : ServeFetch(j)
    \/ \E j \in 1..Len(fetches) : FetchDone(j)
    \/ OnBoardStateEvent

SpecVisibility == InitVisibility /\ [][NextVisibility]_vars

====
